---- MODULE Spec2Model ----
(***************************************************************************)
(* Trade ingestion, deduplication and persistence of tapereader:           *)
(* TapeReadingEngine (src/tapereader/src/core/engine.py), DatabaseManager  *)
(* (src/tapereader/src/data/database.py) and ExcelDataProvider             *)
(* (src/tapereader/src/data/excel_provider.py).                            *)
(***************************************************************************)
EXTENDS Integers, Sequences, FiniteSets, TLC

(***************************************************************************)
(* Bounds of the model.                                                    *)
(***************************************************************************)
MaxCycles == 3        \* get_data results handled over the whole run
MaxBatch == 2         \* trade records in one get_data result
MaxLifetimes == 2     \* engine processes started one after the other
MaxFault == 2         \* position of the insert that a storage error hits
MaxTouches == 12      \* update_price_levels calls in a run of SpecLevels
MaxRows == 1          \* trades stored in a run of SpecLevels
MaxVolume == 1        \* volumes of one touch, from the trade's volume up
MaxReads == 3         \* book reads in a run of SpecBook
MaxCalls == 2         \* get_data calls in a run of SpecProvider
MaxSheetRows == 2     \* filled rows of one symbol's trade range

(***************************************************************************)
(* Program constants.  The first three are scaled down so that eviction,   *)
(* batching and the bootstrap window are reached within the bounds; the    *)
(* source values are 20000, 10 and 1000.                                   *)
(***************************************************************************)
max_saved_hashes == 3
save_interval == 2
HashLoadLimit == 2
LevelHistory == 100
StrengthCap == 10
FirstRunLimit == 30
ProviderMaxHashes == 20000
ProviderKeptHashes == 10000
StartRow == 3

\* The detectors' defaults: the attributes a detector built from an empty
\* configuration holds.  A rate or a ratio is <<numerator, denominator>>.
volume_threshold == 1000

price_impact_max == <<1, 10000>>

time_window == 60

momentum_decay_rate == <<7, 10>>

volume_decay_rate == <<3, 5>>

confirmation_bars == 3

validate_trades == TRUE

Min(a, b) == IF a < b THEN a ELSE b
Max(a, b) == IF a > b THEN a ELSE b

RECURSIVE SumSeq(_)
SumSeq(s) == IF s = <<>> THEN 0 ELSE Head(s) + SumSeq(Tail(s))

LastN(s, n) == SubSeq(s, Max(1, Len(s) - n + 1), Len(s))

Range(s) == {s[i] : i \in 1..Len(s)}

(***************************************************************************)
(* Trade records are Python dicts: a record whose DOMAIN holds the keys    *)
(* that are present.  A timestamp "HH:MM:SS.fff" is <<HH, MM, SS, digits>>.*)
(***************************************************************************)
TradeColumns == {"timestamp", "symbol", "side", "price", "volume"}

Stamp(h, m, s, frac) == <<h, m, s, frac>>

Without(trade, key) == [k \in DOMAIN trade \ {key} |-> trade[k]]

TradeA == [timestamp |-> Stamp(9, 0, 0, <<0, 0, 1>>), symbol |-> "WDOFUT",
           side |-> "BUY", price |-> 10, volume |-> 1]
TradeB == [timestamp |-> Stamp(9, 0, 0, <<0, 0, 2>>), symbol |-> "WDOFUT",
           side |-> "SELL", price |-> 12, volume |-> 2]
TradeC == [timestamp |-> Stamp(10, 0, 0, <<0, 0, 1>>), symbol |-> "DOLFUT",
           side |-> "BUY", price |-> 10, volume |-> 1]
TradeD == [timestamp |-> Stamp(10, 0, 0, <<0, 0, 2>>), symbol |-> "DOLFUT",
           side |-> "SELL", price |-> 11, volume |-> 3]
NoTimestamp == Without(TradeC, "timestamp")
NoSymbol == Without(TradeB, "symbol")

NoPrice == Without(TradeD, "price")

WellFormed == {TradeA, TradeB, TradeC, TradeD}
TradePool == WellFormed \cup {NoTimestamp, NoSymbol, NoPrice}

\* The results of get_data: every single record, and the longer lists that
\* start with one of these pairs (two new records, a record repeated, a
\* malformed record before or after a well-formed one).
Pairs == {<<TradeA, TradeB>>, <<TradeC, TradeD>>, <<TradeA, TradeA>>,
          <<TradeA, NoTimestamp>>, <<NoTimestamp, TradeA>>,
          <<TradeA, NoSymbol>>, <<NoSymbol, TradeA>>}

Batches == {<<t>> : t \in TradePool}
           \cup {b \in [1..MaxBatch -> TradePool] : <<b[1], b[2]>> \in Pairs}

(***************************************************************************)
(* DatabaseManager                                                         *)
(***************************************************************************)

\* The trades table's NOT NULL and CHECK constraints (database.py:47-63).
RowOK(trade) ==
    /\ TradeColumns \subseteq DOMAIN trade
    /\ trade.side \in {"BUY", "SELL"}
    /\ trade.symbol \in {"WDOFUT", "DOLFUT"}

\* The columns of a trade that the INSERT of save_trades binds.
Row(trade) == [c \in TradeColumns |-> trade[c]]

\* cursor.executemany: the rows are inserted one by one inside the open
\* transaction; the insert numbered fault, or the first row a constraint
\* rejects, raises and leaves the rows before it pending.
RECURSIVE ExecuteMany(_, _, _, _)
ExecuteMany(working, trades, i, fault) ==
    IF i > Len(trades) THEN [tbl |-> working, ok |-> TRUE]
    ELSE IF fault = i \/ ~RowOK(trades[i]) THEN [tbl |-> working, ok |-> FALSE]
    ELSE ExecuteMany(Append(working, Row(trades[i])), trades, i + 1, fault)

\* save_trades: returns the table, the count reported and whether the call
\* raised (a closed connection makes the rollback of the handler raise too).
\* executemany runs in save_trades' own transaction, which it ends itself.
\* A handler that returned 0 without rolling back would leave the rows
\* inserted before the error in the table.
KeepPending(tbl, trades, r) ==
    [tbl |-> r.tbl, count |-> IF r.ok THEN Len(trades) ELSE 0, raised |-> FALSE]

\* The end of the transaction r that executemany left: commit and
\* cursor.rowcount, or rollback and 0.
CommitOrRollback(tbl, trades, r) ==
    IF r.ok
    THEN [tbl |-> r.tbl, count |-> Len(trades), raised |-> FALSE]
    ELSE [tbl |-> tbl, count |-> 0, raised |-> FALSE]

save_trades(conn, tbl, trades, fault) ==
    IF trades = <<>> THEN [tbl |-> tbl, count |-> 0, raised |-> FALSE]
    ELSE IF conn # "open" THEN [tbl |-> tbl, count |-> 0, raised |-> TRUE]
    ELSE CommitOrRollback(tbl, trades, ExecuteMany(tbl, trades, 1, fault))

\* _detect_level_type: the price against the mean of the last 100 trade
\* prices of the symbol (price > sum / n, on integers price * n > sum).
LevelTypeAgainst(recent, price) ==
    IF recent = <<>> THEN "PIVOT"
    ELSE IF price * Len(recent) > SumSeq([i \in 1..Len(recent) |-> recent[i].price])
    THEN "RESISTANCE"
    ELSE "SUPPORT"

\* A lookup that reads the last trades of every symbol.
DetectAcrossSymbols(tbl, symbol, price) ==
    LevelTypeAgainst(LastN(tbl, LevelHistory), price)

detect_level_type(tbl, symbol, price) ==
    LevelTypeAgainst(LastN(SelectSeq(tbl, LAMBDA r : r.symbol = symbol), LevelHistory),
                     price)

\* The row an UPDATE of update_price_levels would write without MIN(..., 10).
UpsertUncapped(levels, key, volume) ==
    [k \in DOMAIN levels \cup {key} |->
        IF k # key THEN levels[k]
        ELSE IF key \in DOMAIN levels
        THEN [touch_count |-> levels[key].touch_count + 1,
              volume_traded |-> levels[key].volume_traded + volume,
              strength |-> levels[key].touch_count + 1]
        ELSE [touch_count |-> 1, volume_traded |-> volume, strength |-> 1]]

\* An UPDATE whose strength is taken from the row's count after the previous
\* touch.
UpsertLagging(levels, key, volume) ==
    [k \in DOMAIN levels \cup {key} |->
        IF k # key THEN levels[k]
        ELSE IF key \in DOMAIN levels
        THEN [touch_count |-> levels[key].touch_count + 1,
              volume_traded |-> levels[key].volume_traded + volume,
              strength |-> Min(levels[key].touch_count, StrengthCap)]
        ELSE [touch_count |-> 1, volume_traded |-> volume, strength |-> 1]]

\* update_price_levels: price_levels is a function from (symbol, price,
\* level_type) to the row's counters.  A storage error is caught and rolled
\* back; on a closed connection the rollback raises out of the call.
\* The UPDATE of an existing row or the INSERT of a new one (strength and
\* touch_count default to 1).
UpsertLevel(levels, key, volume) ==
    [k \in DOMAIN levels \cup {key} |->
        IF k # key THEN levels[k]
        ELSE IF key \in DOMAIN levels
        THEN [touch_count |-> levels[key].touch_count + 1,
              volume_traded |-> levels[key].volume_traded + volume,
              strength |-> Min(levels[key].touch_count + 1, StrengthCap)]
        ELSE [touch_count |-> 1, volume_traded |-> volume, strength |-> 1]]

update_price_levels(conn, tbl, levels, symbol, price, volume, fault) ==
    IF conn # "open" THEN [levels |-> levels, raised |-> TRUE]
    ELSE IF fault THEN [levels |-> levels, raised |-> FALSE]
    ELSE [levels |-> UpsertLevel(levels,
                        <<symbol, price, detect_level_type(tbl, symbol, price)>>, volume),
          raised |-> FALSE]

\* update_market_stats: the batch grouped by (symbol, hour); each bucket of
\* the batch replaces the stored one.  A record without symbol, volume,
\* price or side raises inside the loop, before anything is written.
Hour(trade) == IF "timestamp" \in DOMAIN trade THEN trade.timestamp[1] ELSE 0

BucketOf(trade) == <<trade.symbol, Hour(trade)>>

VolumeOf(s) == SumSeq([i \in 1..Len(s) |-> s[i].volume])

PricesOf(s) == [i \in 1..Len(s) |-> s[i].price]

StatsOf(mine, buys, sells, prices) ==
    [total_trades |-> Len(mine), total_volume |-> VolumeOf(mine),
     buy_trades |-> Len(buys), sell_trades |-> Len(sells),
     buy_volume |-> VolumeOf(buys), sell_volume |-> VolumeOf(sells),
     high_price |-> CHOOSE p \in Range(prices) : \A q \in Range(prices) : q <= p,
     low_price |-> CHOOSE p \in Range(prices) : \A q \in Range(prices) : q >= p,
     vwap |-> <<SumSeq(prices), Len(prices)>>]   \* sum(prices) / len(prices)

BucketTrades(mine) ==
    StatsOf(mine, SelectSeq(mine, LAMBDA t : t.side = "BUY"),
            SelectSeq(mine, LAMBDA t : t.side # "BUY"), PricesOf(mine))

BucketStats(trades, bucket) ==
    BucketTrades(SelectSeq(trades, LAMBDA t : BucketOf(t) = bucket))

update_market_stats(conn, mstats, trades) ==
    IF trades = <<>> \/ conn # "open" THEN mstats
    ELSE IF \E i \in 1..Len(trades) :
               ~({"symbol", "volume", "price", "side"} \subseteq DOMAIN trades[i])
    THEN mstats
    ELSE [b \in DOMAIN mstats \cup {BucketOf(trades[i]) : i \in 1..Len(trades)} |->
             IF \E i \in 1..Len(trades) : BucketOf(trades[i]) = b
             THEN BucketStats(trades, b) ELSE mstats[b]]

(***************************************************************************)
(* TapeReadingEngine.  engine holds the object's fields, db the connection *)
(* state and the tables; an optional value is a sequence of length 0 or 1. *)
(***************************************************************************)
VARIABLES engine, db, pc, lifetime, cycles, hist, last, provider, system, detection,
          manager, clock

vars == <<engine, db, pc, lifetime, cycles, hist, last, provider, system, detection,
          manager, clock>>

SYMBOLS == <<"WDOFUT", "DOLFUT">>

\* str(trade.get(key, '')): the empty string when the key is absent.
Str(trade, key) == IF key \in DOMAIN trade THEN <<trade[key]>> ELSE <<>>

\* _generate_trade_hash: MD5 of the five parts joined by '_'; the digest is
\* taken to be collision free, so the joined parts stand for it.
generate_trade_hash(trade) ==
    <<Str(trade, "timestamp"), Str(trade, "symbol"), Str(trade, "side"),
      Str(trade, "price"), Str(trade, "volume")>>

\* _load_recent_trade_hashes: SELECT ... ORDER BY id DESC LIMIT 1000.
LoadOldestRows(d) ==
    IF d.conn # "open" THEN {}
    ELSE {generate_trade_hash(r) : r \in Range(SubSeq(d.trades, 1, Min(Len(d.trades), HashLoadLimit)))}

load_recent_trade_hashes(d) ==
    IF d.conn # "open" THEN {}
    ELSE {generate_trade_hash(r) : r \in Range(LastN(d.trades, HashLoadLimit))}

\* _save_trades_batch.  flush tells how the attempt ended: "none" (empty
\* buffer), "ok", "failed" (save_trades reported fewer rows than the batch)
\* or "raised" (save_trades raised and the handler of line 216 caught it).
\* Lines 199-214 without the validation of lines 207-209.
BatchSavedUncounted(e, d, r) ==
    IF r.raised THEN [e |-> e, d |-> d, flush |-> "raised"]
    ELSE [e |-> [e EXCEPT !.stats.trades_saved = @ + r.count, !.trade_buffer = <<>>],
          d |-> [d EXCEPT
                   !.trades = r.tbl,
                   !.market_stats = update_market_stats(d.conn, @, e.trade_buffer)],
          flush |-> IF r.count = Len(e.trade_buffer) THEN "ok" ELSE "failed"]

\* Lines 199-214 for the result r of save_trades.
batch_saved(e, d, r) ==
    IF r.raised THEN [e |-> e, d |-> d, flush |-> "raised"]
    ELSE [e |-> [e EXCEPT
                   !.stats.trades_saved = @ + r.count,
                   !.stats.validation_errors =
                       IF validate_trades /\ r.count # Len(e.trade_buffer)
                       THEN @ + 1 ELSE @,
                   !.trade_buffer = <<>>],
          d |-> [d EXCEPT
                   !.trades = r.tbl,
                   !.market_stats = update_market_stats(d.conn, @, e.trade_buffer)],
          flush |-> IF r.count = Len(e.trade_buffer) THEN "ok" ELSE "failed"]

save_trades_batch(e, d, fault) ==
    IF e.trade_buffer = <<>> THEN [e |-> e, d |-> d, flush |-> "none"]
    ELSE batch_saved(e, d, save_trades(d.conn, d.trades, e.trade_buffer, fault))

\* The for loop of _process_trades (lines 149-177).  st.raised: a KeyError of
\* trade['symbol'], trade['price'] or trade['volume'], or the error of a
\* closed connection, left the loop.
\* Lines 160-166: a new trade is counted, buffered and its hash stored.
accept_trade(st, trade, trade_hash) ==
    [st EXCEPT !.processed = @ + 1,
               !.buffer = Append(@, trade),
               !.hashes = @ \cup {trade_hash},
               !.accepted = Append(@, trade)]

\* Lines 168-177: the level update of an accepted trade, u its result.
level_touched(st, u) == [st EXCEPT !.levels = u.levels, !.raised = u.raised]

touch_level(st, trade, d) ==
    IF ~({"symbol", "price", "volume"} \subseteq DOMAIN trade)
    THEN [st EXCEPT !.raised = TRUE]
    ELSE level_touched(st, update_price_levels(d.conn, d.trades, st.levels,
                               trade.symbol, trade.price, trade.volume, FALSE))

process_one(st, trade, trade_hash, d) ==
    IF trade_hash \in st.hashes
    THEN [st EXCEPT !.dups = @ + 1]
    ELSE touch_level(accept_trade(st, trade, trade_hash), trade, d)

RECURSIVE process_loop(_, _, _)
process_loop(st, trades, d) ==
    IF trades = <<>> \/ st.raised THEN st
    ELSE process_loop(process_one(st, Head(trades), generate_trade_hash(Head(trades)), d),
                      Tail(trades), d)

LoopResult(e, d, trades) ==
    process_loop([buffer |-> e.trade_buffer, hashes |-> e.saved_trade_hashes,
                  processed |-> e.stats.trades_processed, dups |-> 0,
                  levels |-> d.price_levels, raised |-> FALSE, accepted |-> <<>>],
                 trades, d)

\* set(list(saved_trade_hashes)[-(max_saved_hashes // 2):]): a set has no
\* insertion order, so any max_saved_hashes \div 2 of the hashes may be kept.
KeepChoices(hashes) ==
    IF Cardinality(hashes) > max_saved_hashes
    THEN {k \in SUBSET hashes : Cardinality(k) = max_saved_hashes \div 2}
    ELSE {hashes}

\* _process_trades: the loop, the duplicate counter, the eviction and the
\* flush.  keep is the subset the eviction keeps, fault the storage fault.
\* Lines 189-191 for the result f of the flush, or of no flush.
trades_flushed(st, f) ==
    [e |-> f.e, d |-> f.d, raised |-> FALSE, flush |-> f.flush,
     accepted |-> st.accepted,
     evicted |-> Cardinality(st.hashes) > max_saved_hashes,
     batch |-> IF f.flush = "none" THEN <<>> ELSE st.buffer]

\* A flush that waits until the buffer is above save_interval.
FlushAboveInterval(st, e, d, fault) ==
    trades_flushed(st, IF Len(e.trade_buffer) > save_interval
                       THEN save_trades_batch(e, d, fault)
                       ELSE [e |-> e, d |-> d, flush |-> "none"])

flush_if_due(st, e, d, fault) ==
    trades_flushed(st, IF Len(e.trade_buffer) >= save_interval
                       THEN save_trades_batch(e, d, fault)
                       ELSE [e |-> e, d |-> d, flush |-> "none"])

\* Lines 179-191 for the state st the loop left.
after_loop(e, d, st, keep, fault) ==
    IF st.raised
    THEN [e |-> [e EXCEPT !.trade_buffer = st.buffer,
                          !.stats.trades_processed = st.processed,
                          !.saved_trade_hashes = st.hashes],
          d |-> [d EXCEPT !.price_levels = st.levels],
          raised |-> TRUE, flush |-> "none",
          accepted |-> st.accepted, evicted |-> FALSE, batch |-> <<>>]
    ELSE flush_if_due(st,
                      [e EXCEPT !.trade_buffer = st.buffer,
                                !.stats.trades_processed = st.processed,
                                !.stats.trades_duplicates_prevented = @ + st.dups,
                                !.saved_trade_hashes = keep],
                      [d EXCEPT !.price_levels = st.levels], fault)

process_trades(e, d, trades, keep, fault) ==
    after_loop(e, d, LoopResult(e, d, trades), keep, fault)

(***************************************************************************)
(* Book snapshots.  A book is [bids, asks], each a sequence of             *)
(* [price, volume] levels, best level first.                               *)
(***************************************************************************)
Abs(x) == IF x < 0 THEN -x ELSE x

\* _book_changed_significantly.  last is the optional last_book_snapshot;
\* change / last > 0.5 is 2 * change > last on integers, and a zero volume
\* of the last snapshot raises ZeroDivisionError, which the bare except
\* turns into True.
book_changed_significantly(prev, cur) ==
    IF prev = <<>> THEN TRUE
    ELSE LET old == prev[1]
         IN IF old.bids = <<>> \/ old.asks = <<>> \/ cur.bids = <<>> \/ cur.asks = <<>>
            THEN TRUE
            ELSE IF \/ old.bids[1].price # cur.bids[1].price
                    \/ old.asks[1].price # cur.asks[1].price
            THEN TRUE
            ELSE IF old.bids[1].volume = 0 \/ old.asks[1].volume = 0 THEN TRUE
            ELSE \/ 2 * Abs(old.bids[1].volume - cur.bids[1].volume) > old.bids[1].volume
                 \/ 2 * Abs(old.asks[1].volume - cur.asks[1].volume) > old.asks[1].volume

\* The row save_book_snapshot inserts: up to 5 levels a side, the spread and
\* the mid price (asks[0] + bids[0]) / 2, kept as numerator and denominator.
SnapshotRow(symbol, book) ==
    [symbol |-> symbol,
     bids |-> SubSeq(book.bids, 1, Min(5, Len(book.bids))),
     asks |-> SubSeq(book.asks, 1, Min(5, Len(book.asks))),
     spread |-> IF book.bids # <<>> /\ book.asks # <<>>
                THEN book.asks[1].price - book.bids[1].price ELSE 0,
     mid_price |-> IF book.bids # <<>> /\ book.asks # <<>>
                   THEN <<book.asks[1].price + book.bids[1].price, 2>> ELSE <<0, 1>>]

\* save_book_snapshot: one row; fail is a storage error of this insert.
save_book_snapshot(conn, snaps, symbol, book, fail) ==
    IF conn # "open" THEN [snaps |-> snaps, success |-> FALSE, raised |-> TRUE]
    ELSE IF fail THEN [snaps |-> snaps, success |-> FALSE, raised |-> FALSE]
    ELSE [snaps |-> Append(snaps, SnapshotRow(symbol, book)), success |-> TRUE,
          raised |-> FALSE]

\* Lines 229-230: the counter moves when save_book_snapshot returned True.
snapshot_saved(acc, r) ==
    [acc EXCEPT !.snaps = r.snaps,
                !.saved = IF r.success THEN @ + 1 ELSE @,
                !.raised = r.raised]

\* The for loop of _process_book over ['WDOFUT', 'DOLFUT'].
RECURSIVE save_for_symbols(_, _, _, _)
save_for_symbols(acc, i, book, failing) ==
    IF i > Len(SYMBOLS) \/ acc.raised THEN acc
    ELSE IF book.bids = <<>> \/ book.asks = <<>>
    THEN save_for_symbols(acc, i + 1, book, failing)
    ELSE save_for_symbols(snapshot_saved(acc,
                              save_book_snapshot(acc.conn, acc.snaps, SYMBOLS[i], book,
                                                 SYMBOLS[i] \in failing)),
                          i + 1, book, failing)

\* Lines 225-232 for the result r of the loop.
book_saved(e, d, book, r) ==
    IF r.raised THEN [e |-> e, d |-> d]
    ELSE [e |-> [e EXCEPT !.stats.book_snapshots_saved = @ + r.saved,
                          !.last_book_snapshot = <<book>>],
          d |-> [d EXCEPT !.book_snapshots = r.snaps]]

ProcessBookEveryRead(e, d, book, failing) ==
    book_saved(e, d, book,
               save_for_symbols([conn |-> d.conn, snaps |-> d.book_snapshots,
                                 saved |-> 0, raised |-> FALSE], 1, book, failing))

\* _process_book: the handler catches every exception, so a closed
\* connection leaves the counters and last_book_snapshot as they were.
process_book(e, d, book, failing) ==
    IF ~book_changed_significantly(e.last_book_snapshot, book) THEN [e |-> e, d |-> d]
    ELSE book_saved(e, d, book,
                    save_for_symbols([conn |-> d.conn, snaps |-> d.book_snapshots,
                                      saved |-> 0, raised |-> FALSE], 1, book, failing))

\* _merge_books: each side taken from DOLFUT when it has levels there,
\* otherwise from WDOFUT.
merge_books(wdo_book, dol_book) ==
    [bids |-> IF dol_book.bids # <<>> THEN dol_book.bids ELSE wdo_book.bids,
     asks |-> IF dol_book.asks # <<>> THEN dol_book.asks ELSE wdo_book.asks]

EmptyBook == [bids |-> <<>>, asks |-> <<>>]

(***************************************************************************)
(* One pass of the body of the while loop of start() (lines 62-78) for the *)
(* optional result data of get_data, with the except and finally clauses   *)
(* (lines 83-90) when _process_trades raises.                              *)
(***************************************************************************)
\* Lines 83-90: the except and finally clauses, f the result of the flush.
loop_ended(t, f) ==
    [t EXCEPT !.e = [f.e EXCEPT !.is_running = FALSE], !.d = f.d,
              !.flush = f.flush, !.batch = t.e.trade_buffer]

\* Lines 72-74, b the result of _process_book.
book_processed(t, b) == [t EXCEPT !.e = b.e, !.d = b.d]

\* Lines 71-90 for the result t of the trades of this pass.
after_trades(t, data, fault, failing) ==
    IF t.raised
    THEN loop_ended(t, save_trades_batch(t.e, t.d, fault))
    ELSE IF t.e.save_book_snapshots
    THEN book_processed(t, process_book(t.e, t.d, data[1].book, failing))
    ELSE t

poll_cycle(e, d, data, keep, fault, failing) ==
    IF data = <<>>
    THEN [e |-> e, d |-> d, raised |-> FALSE, flush |-> "none", accepted |-> <<>>,
          evicted |-> FALSE, batch |-> <<>>]
    ELSE after_trades(IF data[1].trades # <<>>
                      THEN process_trades(e, d, data[1].trades, keep, fault)
                      ELSE [e |-> e, d |-> d, raised |-> FALSE, flush |-> "none",
                            accepted |-> <<>>, evicted |-> FALSE, batch |-> <<>>],
                      data, fault, failing)

\* stop(): is_running cleared, the pending buffer flushed, then the
\* connection closed.
connection_closed(e, f) ==
    [e |-> f.e, d |-> [f.d EXCEPT !.conn = "closed"], flush |-> f.flush,
     batch |-> e.trade_buffer]

stop(e, d, fault) ==
    connection_closed(e, save_trades_batch([e EXCEPT !.is_running = FALSE], d, fault))

(***************************************************************************)
(* The engine process.  pc is the position of start(): "new" (constructed, *)
(* start() not yet run), "get_data" (awaiting the provider), "sleep"       *)
(* (awaiting asyncio.sleep) or "exited".  hist and last only record what   *)
(* happened: hist.acc counts, per record, how often this engine accepted   *)
(* it into trade_buffer; last describes the step just taken.               *)
(***************************************************************************)
NewEngine(books) ==
    [trade_buffer |-> <<>>, saved_trade_hashes |-> {}, last_book_snapshot |-> <<>>,
     is_running |-> FALSE, save_book_snapshots |-> books,
     stats |-> [trades_processed |-> 0, trades_saved |-> 0,
                trades_duplicates_prevented |-> 0, book_snapshots_saved |-> 0,
                validation_errors |-> 0]]

NewDatabase ==
    [conn |-> "none", trades |-> <<>>, price_levels |-> <<>>, book_snapshots |-> <<>>,
     market_stats |-> <<>>, validation_log |-> <<>>]

NewHist ==
    [acc |-> [t \in TradePool |-> 0], evicted |-> FALSE, healthy |-> TRUE,
     boot_len |-> 0, handed |-> 0]

Quiet(op) == [op |-> op, raised |-> FALSE, flush |-> "none", batch |-> <<>>]

\* ExcelDataProvider after __init__; returned is the optional result of the
\* latest get_data, candidates the new trades it found, before its last sort.
NewProvider == [first_run |-> TRUE, processed_trades |-> {}, last_excel_state |-> <<>>,
                returned |-> <<>>, candidates |-> <<>>]

\* TapeReadingSystem after __init__, with the analysis handed to the latest
\* generate_signals call, what it returned and whether it raised.
NewSystem == [active_signals |-> <<>>, analysis |-> <<>>, signals |-> <<>>, raised |-> FALSE]

\* No detector has been called: trades is the list handed to a detector,
\* result the optional Behavior it returned.
NoDetection == [detector |-> "none", trades |-> <<>>, result |-> <<>>]

\* BehaviorManager after __init__({}, cache_manager): both detectors enabled,
\* each holding its configuration and the attributes read from it.
NewManager ==
    [active_behaviors |-> <<>>,
     config |-> <<>>,
     absorption_detector |->
         [config |-> <<>>, volume_threshold |-> volume_threshold,
          price_impact_max |-> price_impact_max, time_window |-> time_window],
     exhaustion_detector |->
         [config |-> <<>>, momentum_decay_rate |-> momentum_decay_rate,
          volume_decay_rate |-> volume_decay_rate,
          confirmation_bars |-> confirmation_bars]]

\* The components a specification leaves alone, as constructed; clock is
\* datetime.now() in seconds.
Elsewhere ==
    /\ system = NewSystem
    /\ detection = NoDetection
    /\ manager = NewManager
    /\ clock = 0

Init ==
    /\ engine = NewEngine(FALSE)
    /\ db = NewDatabase
    /\ pc = "new"
    /\ lifetime = 1
    /\ cycles = 0
    /\ hist = NewHist
    /\ last = Quiet("init")
    /\ provider = NewProvider
    /\ Elsewhere

Occurrences(s, x) == Cardinality({i \in 1..Len(s) : s[i] = x})

\* start() up to the loop: initialize(), _load_recent_trade_hashes(),
\* is_running = True.
Start ==
    /\ pc = "new"
    /\ LET d == [db EXCEPT !.conn = "open"]
       IN /\ db' = d
          /\ engine' = [engine EXCEPT !.saved_trade_hashes = load_recent_trade_hashes(d),
                                      !.is_running = TRUE]
          /\ hist' = [hist EXCEPT !.boot_len = Len(d.trades)]
    /\ pc' = "get_data"
    /\ last' = Quiet("start")
    /\ UNCHANGED <<system, detection, manager, clock, lifetime, cycles, provider>>

\* The buffer a flush of this pass would write, empty when none happens.
BufferDue(st) == IF st.raised \/ Len(st.buffer) >= save_interval THEN st.buffer ELSE <<>>

FlushedBy(e, d, data) ==
    IF data = <<>> \/ data[1].trades = <<>> THEN <<>>
    ELSE BufferDue(LoopResult(e, d, data[1].trades))

\* The hashes the eviction of this pass chooses from.
HashesLeft(e, st) == IF st.raised THEN e.saved_trade_hashes ELSE st.hashes

HashesAfter(e, d, data) ==
    IF data = <<>> \/ data[1].trades = <<>> THEN e.saved_trade_hashes
    ELSE HashesLeft(e, LoopResult(e, d, data[1].trades))

\* The state a pass of the loop leaves, r being the result of poll_cycle.
Handled(r, fault, handed) ==
    /\ engine' = r.e
    /\ db' = r.d
    /\ pc' = IF r.raised THEN "exited" ELSE "sleep"
    /\ hist' = [hist EXCEPT
                  !.acc = [t \in TradePool |-> @[t] + Occurrences(r.accepted, t)],
                  !.evicted = @ \/ r.evicted,
                  !.healthy = @ /\ fault = 0,
                  !.handed = IF r.raised THEN @ ELSE @ + handed]
    /\ last' = [op |-> "cycle", raised |-> r.raised, flush |-> r.flush,
                batch |-> r.batch]

\* One pass of the loop: get_data returned data.
Cycle(data, keep, fault) ==
    /\ pc = "get_data"
    /\ cycles < MaxCycles
    /\ Handled(poll_cycle(engine, db, data, keep, fault, {}), fault,
               IF data = <<>> THEN 0 ELSE Len(data[1].trades))
    /\ cycles' = cycles + 1
    /\ UNCHANGED <<system, detection, manager, clock, lifetime, provider>>

\* get_data returned None: nothing is handled.
Idle ==
    /\ pc = "get_data"
    /\ pc' = "sleep"
    /\ last' = Quiet("idle")
    /\ UNCHANGED <<system, detection, manager, clock, engine, db, lifetime, cycles, hist, provider>>

\* asyncio.sleep returned: the while condition is tested; when it fails the
\* finally clause flushes and the coroutine ends.
Woken(f) ==
    /\ engine' = [f.e EXCEPT !.is_running = IF engine.is_running THEN @ ELSE FALSE]
    /\ db' = f.d
    /\ last' = [op |-> "wake", raised |-> FALSE, flush |-> f.flush,
                batch |-> IF f.flush = "none" THEN <<>> ELSE engine.trade_buffer]

SleepDone(fault) ==
    /\ pc = "sleep"
    /\ Woken(IF engine.is_running THEN [e |-> engine, d |-> db, flush |-> "none"]
             ELSE save_trades_batch(engine, db, fault))
    /\ pc' = IF engine.is_running THEN "get_data" ELSE "exited"
    /\ hist' = [hist EXCEPT !.healthy = @ /\ fault = 0]
    /\ UNCHANGED <<system, detection, manager, clock, lifetime, cycles, provider>>

Stopped(r) ==
    /\ engine' = r.e
    /\ db' = r.d
    /\ last' = [op |-> "stop", raised |-> FALSE, flush |-> r.flush,
                batch |-> IF r.flush = "none" THEN <<>> ELSE r.batch]

\* stop(), called by main() while start() is suspended or after it ended.
Stop(fault) ==
    /\ pc \in {"get_data", "sleep", "exited"}
    /\ db.conn = "open"
    /\ Stopped(stop(engine, db, fault))
    /\ hist' = [hist EXCEPT !.healthy = @ /\ fault = 0]
    /\ UNCHANGED <<system, detection, manager, clock, pc, lifetime, cycles, provider>>

\* The process ends and the program is run again on the same database file.
Restart ==
    /\ pc = "exited"
    /\ db.conn = "closed"
    /\ lifetime < MaxLifetimes
    /\ engine' = NewEngine(engine.save_book_snapshots)
    /\ db' = [db EXCEPT !.conn = "none"]
    /\ pc' = "new"
    /\ lifetime' = lifetime + 1
    /\ hist' = NewHist
    /\ last' = Quiet("restart")
    /\ UNCHANGED <<system, detection, manager, clock, cycles, provider>>

\* The storage faults a flush of buffer can meet: none, or the insert at a
\* position of the batch.
Faults(conn, buffer) == IF conn = "open" THEN 0..Min(MaxFault, Len(buffer)) ELSE {0}

Results == {<<[trades |-> b, book |-> EmptyBook]>> : b \in Batches}

Next ==
    \/ Start
    \/ /\ pc = "get_data" /\ cycles < MaxCycles
       /\ \E data \in Results :
            \E keep \in KeepChoices(HashesAfter(engine, db, data)),
               fault \in Faults(db.conn, FlushedBy(engine, db, data)) :
                 Cycle(data, keep, fault)
    \/ Idle
    \/ \E fault \in Faults(db.conn, IF engine.is_running THEN <<>> ELSE engine.trade_buffer) :
         SleepDone(fault)
    \/ \E fault \in Faults(db.conn, engine.trade_buffer) : Stop(fault)
    \/ Restart

Spec == Init /\ [][Next]_vars

(***************************************************************************)
(* Properties of deduplication and persistence, checked under Spec.        *)
(***************************************************************************)
SameTrade(a, b) == generate_trade_hash(a) = generate_trade_hash(b)

Persisted(t) == \E i \in 1..Len(db.trades) : SameTrade(db.trades[i], t)

\* Only well-formed records have been accepted by this engine.
Clean == \A t \in TradePool \ WellFormed : hist.acc[t] = 0

\* C1: within one engine lifetime no record is accepted as unique (appended
\* to trade_buffer, counted in trades_processed) more than once, however
\* often and in whatever order the records are submitted.
C1_AcceptedOnce == Clean => \A t \in WellFormed : hist.acc[t] <= 1

\* C2: when a flush of well-formed trades fails on a storage error, the
\* trade buffer still holds every trade of the failed batch afterwards.
C2_FailedFlushKeepsBuffer ==
    (last.flush = "failed" /\ Range(last.batch) \subseteq WellFormed)
        => Range(last.batch) \subseteq Range(engine.trade_buffer)

\* The hashes of the HashLoadLimit rows that were the most recent ones of
\* the table when this engine started.
RecentAtBoot ==
    {generate_trade_hash(db.trades[i]) :
        i \in Max(1, hist.boot_len - HashLoadLimit + 1)..hist.boot_len}

ResubmittedRecentRejected ==
    /\ \A t \in TradePool : generate_trade_hash(t) \in RecentAtBoot => hist.acc[t] = 0
    /\ \A i \in (hist.boot_len + 1)..Len(db.trades) :
          generate_trade_hash(db.trades[i]) \notin RecentAtBoot

\* C3 as stated: after a restart, a record equal to one of the most recently
\* persisted HashLoadLimit trades is never accepted nor persisted again.
C3_RecentAlwaysRejected == ResubmittedRecentRejected

\* C3, amended: the same, for as long as the restarted engine has not cut
\* its hash set by an eviction.
C3_RecentRejectedUntilEviction == ~hist.evicted => ResubmittedRecentRejected

\* A restarted engine classified a submission as a duplicate although it has
\* accepted nothing itself: the hash came from the bootstrap.
C3_Witness ==
    /\ lifetime = 2 /\ last.op = "cycle" /\ ~hist.evicted
    /\ RecentAtBoot # {}
    /\ engine.stats.trades_duplicates_prevented > 0
    /\ \A t \in TradePool : hist.acc[t] = 0

\* C4: the trades table never holds two rows with the same (timestamp,
\* symbol, side, price, volume).
C4_NoDuplicateRows ==
    \A i, j \in 1..Len(db.trades) : i # j => db.trades[i] # db.trades[j]

\* C5: every call of save_trades either appends all rows of the batch and
\* reports their number, or leaves the table as it was and reports 0.
C5_AllOrNothing ==
    [][last'.flush \in {"ok", "failed"} =>
         \/ /\ last'.flush = "ok"
            /\ db'.trades = db.trades \o [i \in 1..Len(last'.batch) |-> Row(last'.batch[i])]
            /\ engine'.stats.trades_saved = engine.stats.trades_saved + Len(last'.batch)
         \/ /\ last'.flush = "failed"
            /\ db'.trades = db.trades
            /\ engine'.stats.trades_saved = engine.stats.trades_saved]_vars

\* A batch failed after its first row had been inserted.
C5_Witness ==
    /\ last.flush = "failed"
    /\ Len(last.batch) >= 2
    /\ RowOK(last.batch[1])
    /\ ~Persisted(last.batch[1])

\* C7: when stop() returns and no storage error has occurred, trade_buffer
\* is empty and every trade this engine accepted is in the trades table.
C7_StopDrainsBuffer ==
    (last.op = "stop" /\ hist.healthy)
        => /\ engine.trade_buffer = <<>>
           /\ \A t \in TradePool : hist.acc[t] > 0 => Persisted(t)

\* C8: a malformed record is never buffered and never makes
\* _process_trades raise.
C8_MalformedSkipped ==
    /\ Range(engine.trade_buffer) \subseteq WellFormed
    /\ ~last.raised

(***************************************************************************)
(* SpecLevels: update_price_levels called over and over on an open         *)
(* database whose trades table (the history _detect_level_type reads)      *)
(* changes in between.                                                     *)
(***************************************************************************)
InitLevels ==
    /\ engine = [NewEngine(FALSE) EXCEPT !.is_running = TRUE]
    /\ db = [NewDatabase EXCEPT !.conn = "open"]
    /\ pc = "levels"
    /\ lifetime = 1
    /\ cycles = 0
    /\ hist = NewHist
    /\ last = Quiet("init")
    /\ provider = NewProvider
    /\ Elsewhere

TouchLevel(symbol, price, volume, fault) ==
    /\ pc = "levels"
    /\ cycles < MaxTouches
    /\ db' = [db EXCEPT !.price_levels =
                  update_price_levels(db.conn, db.trades, @, symbol, price, volume,
                                      fault).levels]
    /\ cycles' = cycles + 1
    /\ last' = [Quiet("touch") EXCEPT
                  !.batch = <<[symbol |-> symbol, price |-> price, volume |-> volume,
                               fault |-> fault]>>]
    /\ UNCHANGED <<system, detection, manager, clock, engine, pc, lifetime, hist, provider>>

StoreTrade(trade) ==
    /\ pc = "levels"
    /\ Len(db.trades) < MaxRows
    /\ db' = [db EXCEPT !.trades = save_trades(db.conn, @, <<trade>>, 0).tbl]
    /\ last' = Quiet("store")
    /\ UNCHANGED <<system, detection, manager, clock, engine, pc, lifetime, cycles, hist, provider>>

NextLevels ==
    \/ \E trade \in {TradeA, TradeB}, fault \in BOOLEAN :
          \E volume \in trade.volume..(trade.volume + MaxVolume - 1) :
            TouchLevel(trade.symbol, trade.price, volume, fault)
    \/ \E trade \in {TradeA, TradeB} : StoreTrade(trade)

SpecLevels == InitLevels /\ [][NextLevels]_vars

\* C9: for every row of price_levels, a call of update_price_levels never
\* lowers its strength (nor removes the row), and strength is never above 10.
C9_StrengthMonotoneCapped ==
    /\ [][\A k \in DOMAIN db.price_levels :
             /\ k \in DOMAIN db'.price_levels
             /\ db'.price_levels[k].strength >= db.price_levels[k].strength]_vars
    /\ [](\A k \in DOMAIN db.price_levels : db.price_levels[k].strength <= 10)

\* A level touched more often than the cap: its strength stays at 10.
C9_Witness ==
    \E k \in DOMAIN db.price_levels :
        /\ db.price_levels[k].touch_count > StrengthCap
        /\ db.price_levels[k].strength = 10

(***************************************************************************)
(* SpecBook: an engine with save_book_snapshots on handles book reads.     *)
(* hist keeps the last two books read, last_book_snapshot as it was before *)
(* the latest read, the rows that read added and the inserts that failed.  *)
(***************************************************************************)
Level(price, volume) == [price |-> price, volume |-> volume]

WdoBooks ==
    {[bids |-> <<Level(p, v)>>, asks |-> <<Level(102, 10)>>] :
        p \in {100, 101}, v \in {10, 14, 18}}
    \cup {[bids |-> <<>>, asks |-> <<Level(102, 10)>>]}

DolBooks == {EmptyBook, [bids |-> <<>>, asks |-> <<Level(103, 10)>>]}

InitBook ==
    /\ engine = [NewEngine(TRUE) EXCEPT !.is_running = TRUE]
    /\ db = [NewDatabase EXCEPT !.conn = "open"]
    /\ pc = "get_data"
    /\ lifetime = 1
    /\ cycles = 0
    /\ hist = [reads |-> <<>>, base |-> <<>>, added |-> 0, failing |-> {}]
    /\ last = Quiet("init")
    /\ provider = NewProvider
    /\ Elsewhere

\* One pass of the loop whose get_data result carries only a book: the
\* provider merges the two symbols' books, the engine handles the result.
BookHandled(book, r, failing) ==
    /\ engine' = r.e
    /\ db' = r.d
    /\ hist' = [reads |-> LastN(Append(hist.reads, book), 2),
                base |-> engine.last_book_snapshot,
                added |-> Len(r.d.book_snapshots) - Len(db.book_snapshots),
                failing |-> failing]

BookPolled(book, failing) ==
    BookHandled(book,
                poll_cycle(engine, db, <<[trades |-> <<>>, book |-> book]>>,
                           engine.saved_trade_hashes, 0, failing),
                failing)

BookRead(wdo_book, dol_book, failing) ==
    /\ pc = "get_data"
    /\ cycles < MaxReads
    /\ BookPolled(merge_books(wdo_book, dol_book), failing)
    /\ cycles' = cycles + 1
    /\ last' = Quiet("book")
    /\ UNCHANGED <<system, detection, manager, clock, pc, lifetime, provider>>

NextBook ==
    \E wdo_book \in WdoBooks, dol_book \in DolBooks, failing \in {{}, {"DOLFUT"}} :
        BookRead(wdo_book, dol_book, failing)

SpecBook == InitBook /\ [][NextBook]_vars

TwoSided(book) == book.bids # <<>> /\ book.asks # <<>>

TopPriceChanged(a, b) ==
    /\ TwoSided(a) /\ TwoSided(b)
    /\ \/ a.bids[1].price # b.bids[1].price
       \/ a.asks[1].price # b.asks[1].price

\* Same top prices, and each top volume of b within pct percent of a's.
TopWithin(a, b, pct) ==
    /\ TwoSided(a) /\ TwoSided(b)
    /\ a.bids[1].price = b.bids[1].price /\ a.asks[1].price = b.asks[1].price
    /\ 100 * Abs(a.bids[1].volume - b.bids[1].volume) <= pct * a.bids[1].volume
    /\ 100 * Abs(a.asks[1].volume - b.asks[1].volume) <= pct * a.asks[1].volume

\* C10 as stated: of two consecutive reads, the second adds no row when the
\* top of book is unchanged (same prices, volumes changed by less than 50%)
\* and exactly one row when the top bid or ask price changed.
C10_ZeroOrOneRow ==
    Len(hist.reads) = 2 =>
        /\ TopWithin(hist.reads[1], hist.reads[2], 49) => hist.added = 0
        /\ TopPriceChanged(hist.reads[1], hist.reads[2]) => hist.added = 1

\* C10, amended: the second read adds no row when its top of book has the
\* prices of last_book_snapshot (the last read judged significant) and
\* volumes within 50% of it; when the top bid or ask price changed it adds
\* one row per symbol of SYMBOLS whose insert succeeds, two when both do.
C10_ZeroOrRowPerSymbol ==
    Len(hist.reads) = 2 =>
        /\ (hist.base # <<>> /\ TopWithin(hist.base[1], hist.reads[2], 50))
              => hist.added = 0
        /\ TopPriceChanged(hist.reads[1], hist.reads[2])
              => hist.added = Len(SYMBOLS) - Cardinality(hist.failing)

\* A price change between two reads, stored once for each symbol.
C10_Witness ==
    /\ Len(hist.reads) = 2
    /\ TopPriceChanged(hist.reads[1], hist.reads[2])
    /\ hist.failing = {}
    /\ hist.added = 2
    /\ Len(db.book_snapshots) >= 4

(***************************************************************************)
(* ExcelDataProvider.  A sheet range is a sequence of rows of cells        *)
(* [data, agressao, valor, quantidade]; an empty data cell is <<>>.  The   *)
(* keys timestamp_full, order_id and aggressor of a trade, which no        *)
(* operator below reads, are left out.                                     *)
(***************************************************************************)

\* int(time_parts[1].ljust(3, '0')[:3]): the fraction's first three digits,
\* padded on the right with zeros.
Millis(digits) ==
    LET d(i) == IF i <= Len(digits) THEN digits[i] ELSE 0
    IN 100 * d(1) + 10 * d(2) + d(3)

\* _parse_time_for_sorting of a time-only string "HH:MM:SS[.f...]": the
\* date is today's for every key of one call, so the key is the time of
\* day in milliseconds.
parse_time_for_sorting(timestamp) ==
    ((timestamp[1] * 60 + timestamp[2]) * 60 + timestamp[3]) * 1000
        + (IF timestamp[4] = <<>> THEN 0 ELSE Millis(timestamp[4]))

\* sorted(trades, key=...): a stable sort.  The place of a trade in the
\* result is one more than the number of trades with an earlier key, or
\* with the same key and an earlier position.
TimePlace(trades) ==
    [i \in 1..Len(trades) |->
        1 + Cardinality({j \in 1..Len(trades) :
              \/ parse_time_for_sorting(trades[j].timestamp)
                   < parse_time_for_sorting(trades[i].timestamp)
              \/ /\ parse_time_for_sorting(trades[j].timestamp)
                      = parse_time_for_sorting(trades[i].timestamp)
                 /\ j < i})]

Placed(trades, place) ==
    [p \in 1..Len(trades) |-> trades[CHOOSE i \in 1..Len(trades) : place[i] = p]]

KeepRowOrder(trades) == trades

sort_by_time(trades) == Placed(trades, TimePlace(trades))

\* _create_trade_hash: MD5 of the five fields joined by '_'.
create_trade_hash(trade) ==
    <<trade.timestamp, trade.symbol, trade.side, trade.price, trade.volume>>

\* _read_trades: one trade per row whose data, valor and quantidade cells
\* are filled, in row order, with the row's number.
read_row(symbol, cells, i) ==
    [timestamp |-> cells[i].data[1], symbol |-> symbol,
     side |-> IF cells[i].agressao = "Comprador" THEN "BUY" ELSE "SELL",
     price |-> cells[i].valor, volume |-> cells[i].quantidade,
     row |-> StartRow + i - 1]

Filled(cells, i) ==
    SelectSeq([k \in 1..Len(cells) |-> k], LAMBDA k : k >= i /\ cells[k].data # <<>>)

read_rows(symbol, cells, i) ==
    [j \in 1..Len(Filled(cells, i)) |-> read_row(symbol, cells, Filled(cells, i)[j])]

read_trades(range_key, cells) ==
    read_rows(IF range_key = "wdofut_trades" THEN "WDOFUT" ELSE "DOLFUT", cells, 1)

\* The loop of the first run over one symbol's sorted trades (lines 147-156).
RECURSIVE first_run_loop(_, _)
first_run_loop(st, trades) ==
    IF trades = <<>> THEN st
    ELSE LET trade == Head(trades)
             trade_hash == create_trade_hash(trade)
         IN IF trade_hash \in st.processed_trades
            THEN first_run_loop(st, Tail(trades))
            ELSE first_run_loop(
                   [st EXCEPT !.processed_trades = @ \cup {trade_hash},
                              !.candidates = Append(@, trade),
                              !.last_excel_state =
                                  [k \in DOMAIN @ \cup {<<trade.symbol, trade.row>>} |->
                                     IF k = <<trade.symbol, trade.row>> THEN trade_hash
                                     ELSE @[k]]],
                   Tail(trades))

\* The loop of a later run over one symbol's trades in row order
\* (lines 183-211).
RECURSIVE later_run_loop(_, _)
later_run_loop(st, trades) ==
    IF trades = <<>> THEN st
    ELSE LET trade == Head(trades)
             trade_hash == create_trade_hash(trade)
             is_new == trade_hash \notin st.processed_trades
         IN later_run_loop(
              [st EXCEPT !.processed_trades = @ \cup {trade_hash},
                         !.candidates = IF is_new THEN Append(@, trade) ELSE @,
                         !.last_excel_state =
                             [k \in DOMAIN @ \cup {<<trade.symbol, trade.row>>} |->
                                IF k = <<trade.symbol, trade.row>> THEN trade_hash
                                ELSE @[k]]],
              Tail(trades))

\* The hash sets the cleanup of lines 214-219 may leave.
ProviderKeepChoices(hashes) ==
    IF Cardinality(hashes) > ProviderMaxHashes
    THEN {k \in SUBSET hashes : Cardinality(k) = ProviderKeptHashes}
    ELSE {hashes}

\* processed_trades as the loops of a later run leave it.
SeenAfter(pr, wdo_cells, dol_cells) ==
    pr.processed_trades
        \cup {create_trade_hash(t) :
                 t \in Range(read_trades("wdofut_trades", wdo_cells))
                        \cup Range(read_trades("dolfut_trades", dol_cells))}

\* get_data for the two trade ranges as the sheet shows them now.
\* Lines 163-176 and 223-239: the result is None when no trade is new.
result_of(pr, trades_sorted) ==
    [pr EXCEPT !.returned = IF trades_sorted # <<>> THEN <<trades_sorted>> ELSE <<>>]

\* Lines 214-219: the cleanup of processed_trades.
cleanup(pr, keep) ==
    [pr EXCEPT !.processed_trades = IF Cardinality(@) > ProviderMaxHashes THEN keep ELSE @]

sorted_result(pr) == result_of(pr, sort_by_time(pr.candidates))

\* Lines 141-150: the first FirstRunLimit trades of a symbol, in time order.
first_trades(trades) == SubSeq(trades, 1, Min(FirstRunLimit, Len(trades)))

\* A first run that also records the trades it does not return as processed.
FirstRunSeesAll(pr, wdofut, dolfut) ==
    [sorted_result(first_run_loop(first_run_loop(pr, first_trades(sort_by_time(wdofut))),
                                  first_trades(sort_by_time(dolfut))))
       EXCEPT !.processed_trades =
                  @ \cup {create_trade_hash(t) : t \in Range(wdofut) \cup Range(dolfut)}]

first_run(pr, wdofut, dolfut) ==
    sorted_result(first_run_loop(first_run_loop(pr, first_trades(sort_by_time(wdofut))),
                                 first_trades(sort_by_time(dolfut))))

later_run(pr, wdofut, dolfut, keep) ==
    sorted_result(cleanup(later_run_loop(later_run_loop(pr, wdofut), dolfut), keep))

get_data(pr, wdo_cells, dol_cells, keep) ==
    IF pr.first_run
    THEN first_run([pr EXCEPT !.first_run = FALSE, !.candidates = <<>>],
                   read_trades("wdofut_trades", wdo_cells),
                   read_trades("dolfut_trades", dol_cells))
    ELSE later_run([pr EXCEPT !.first_run = FALSE, !.candidates = <<>>],
                   read_trades("wdofut_trades", wdo_cells),
                   read_trades("dolfut_trades", dol_cells), keep)

(***************************************************************************)
(* SpecProvider: get_data called on a sheet whose rows change between      *)
(* calls.                                                                  *)
(***************************************************************************)
SheetStamps == {Stamp(9, 0, 0, <<5>>), Stamp(9, 0, 0, <<2, 5>>), Stamp(9, 0, 1, <<>>)}

SheetRows ==
    {[data |-> <<t>>, agressao |-> "Comprador", valor |-> 10, quantidade |-> 1] :
        t \in SheetStamps}
    \cup {[data |-> <<>>, agressao |-> "Vendedor", valor |-> 10, quantidade |-> 1]}

Sheets == UNION {[1..n -> SheetRows] : n \in 0..MaxSheetRows}

InitProvider ==
    /\ engine = NewEngine(FALSE)
    /\ db = NewDatabase
    /\ pc = "provider"
    /\ lifetime = 1
    /\ cycles = 0
    /\ hist = NewHist
    /\ last = Quiet("init")
    /\ provider = NewProvider
    /\ Elsewhere

GetData(wdo_cells, dol_cells, keep) ==
    /\ pc = "provider"
    /\ cycles < MaxCalls
    /\ provider' = get_data(provider, wdo_cells, dol_cells, keep)
    /\ cycles' = cycles + 1
    /\ last' = Quiet("get_data")
    /\ UNCHANGED <<system, detection, manager, clock, engine, db, pc, lifetime, hist>>

NextProvider ==
    \E wdo_cells \in Sheets, dol_cells \in Sheets :
        \E keep \in ProviderKeepChoices(SeenAfter(provider, wdo_cells, dol_cells)) :
            GetData(wdo_cells, dol_cells, keep)

SpecProvider == InitProvider /\ [][NextProvider]_vars

Ordered(trades) ==
    \A i \in 1..(Len(trades) - 1) :
        parse_time_for_sorting(trades[i].timestamp)
            <= parse_time_for_sorting(trades[i + 1].timestamp)

\* C6: the trades list a get_data call returns is non-decreasing by the
\* parsed time of day in milliseconds, whatever the row order of the sheet.
C6_ReturnedSorted == provider.returned # <<>> => Ordered(provider.returned[1])

\* A later run found new trades of both symbols out of time order and
\* returned them ordered.
C6_Witness ==
    /\ cycles = 2
    /\ provider.returned # <<>>
    /\ ~Ordered(provider.candidates)
    /\ {t.symbol : t \in Range(provider.returned[1])} = {"WDOFUT", "DOLFUT"}

(***************************************************************************)
(* TapeReadingSystem.generate_signals.  A confidence or a ratio is the     *)
(* pair <<numerator, denominator>> of the quotient the code computes, in   *)
(* lowest terms; prices are whole ticks.                                   *)
(***************************************************************************)
RECURSIVE GCD(_, _)
GCD(a, b) == IF b = 0 THEN a ELSE GCD(b, a % b)

\* a / b for b # 0.
Quotient(a, b) == <<a \div GCD(a, b), b \div GCD(a, b)>>

\* q > n / d.
Exceeds(q, n, d) == q[1] * d > n * q[2]

\* analysis['flow'].get('flow_bias', 'NEUTRAL') and
\* behavior.metadata.get('direction', 'NEUTRAL').
Get(dict, key, default) == IF key \in DOMAIN dict THEN dict[key] ELSE default

\* The dict the absorption branch builds (lines 134-157), <<>> for None.
absorption_signal(behavior, analysis) ==
    IF Get(analysis.flow, "flow_bias", "NEUTRAL") = "BULLISH"
       /\ Exceeds(behavior.confidence, 7, 10)
    THEN <<[type |-> "BUY", confidence |-> behavior.confidence,
            symbol |-> behavior.symbol,
            entry |-> analysis.price.current_price,
            stop |-> analysis.price.low,
            target |-> analysis.price.current_price + analysis.price.range * 2]>>
    ELSE IF Get(analysis.flow, "flow_bias", "NEUTRAL") = "BEARISH"
            /\ Exceeds(behavior.confidence, 7, 10)
    THEN <<[type |-> "SELL", confidence |-> behavior.confidence,
            symbol |-> behavior.symbol,
            entry |-> analysis.price.current_price,
            stop |-> analysis.price.high,
            target |-> analysis.price.current_price - analysis.price.range * 2]>>
    ELSE <<>>

\* The dict the exhaustion branch builds (lines 159-182).
exhaustion_signal(behavior, analysis) ==
    IF Get(behavior.metadata, "direction", "NEUTRAL") = "BULLISH"
       /\ Exceeds(behavior.confidence, 3, 4)
    THEN <<[type |-> "SELL", confidence |-> behavior.confidence,
            symbol |-> behavior.symbol,
            entry |-> analysis.price.current_price,
            stop |-> analysis.price.high + 2,
            target |-> analysis.price.average]>>
    ELSE IF Get(behavior.metadata, "direction", "NEUTRAL") = "BEARISH"
            /\ Exceeds(behavior.confidence, 3, 4)
    THEN <<[type |-> "BUY", confidence |-> behavior.confidence,
            symbol |-> behavior.symbol,
            entry |-> analysis.price.current_price,
            stop |-> analysis.price.low - 2,
            target |-> analysis.price.average]>>
    ELSE <<>>

signal_for(behavior, analysis) ==
    IF behavior.type = "absorption" THEN absorption_signal(behavior, analysis)
    ELSE IF behavior.type = "exhaustion" THEN exhaustion_signal(behavior, analysis)
    ELSE <<>>

\* The ratio taken the other way round: risk over reward.
RiskOverReward(signal) ==
    IF signal.target = signal.entry THEN <<1, 0>>
    ELSE Quotient(Abs(signal.stop - signal.entry), Abs(signal.target - signal.entry))

\* abs(target - entry) / abs(stop - entry) of line 186, for stop # entry.
risk_reward(signal) ==
    Quotient(Abs(signal.target - signal.entry), Abs(signal.stop - signal.entry))

\* Lines 184-188 for a signal that was built: the division by a zero stop
\* distance raises ZeroDivisionError before the signal is appended.
append_signal(st, signal, now) ==
    IF signal.stop = signal.entry THEN [st EXCEPT !.raised = TRUE]
    ELSE [st EXCEPT
            !.signals = Append(@, [k \in DOMAIN signal \cup {"timestamp", "risk_reward"} |->
                                     IF k = "timestamp" THEN now
                                     ELSE IF k = "risk_reward" THEN risk_reward(signal)
                                     ELSE signal[k]])]

signal_built(st, signal, now) ==
    IF signal = <<>> THEN st ELSE append_signal(st, signal[1], now)

\* The for loop of generate_signals over analysis.get('behaviors', []).
RECURSIVE signals_loop(_, _, _, _)
signals_loop(st, behaviors, analysis, now) ==
    IF behaviors = <<>> \/ st.raised THEN st
    ELSE signals_loop(signal_built(st, signal_for(Head(behaviors), analysis), now),
                      Tail(behaviors), analysis, now)

\* What the call leaves: the list returned unless it raised, and
\* active_signals extended by every signal appended before that.
signals_returned(sys, analysis, st) ==
    [active_signals |-> sys.active_signals \o st.signals,
     analysis |-> <<analysis>>,
     signals |-> IF st.raised THEN <<>> ELSE st.signals,
     raised |-> st.raised]

generate_signals(sys, analysis, now) ==
    signals_returned(sys, analysis,
                     signals_loop([signals |-> <<>>, raised |-> FALSE],
                                  Get(analysis, "behaviors", <<>>), analysis, now))

(***************************************************************************)
(* SpecSignals: one generate_signals call on an analysis with up to        *)
(* MaxBehaviors behaviours and the price statistics of PriceActionAnalyzer *)
(* (low <= current_price <= high, range = high - low).                     *)
(***************************************************************************)
MaxBehaviors == 2

Confidences == {<<7, 10>>, <<3, 4>>, <<4, 5>>}

Directions == {"BULLISH", "BEARISH", "NEUTRAL"}

BehaviorPool ==
    {[type |-> "absorption", symbol |-> "WDOFUT", confidence |-> c, metadata |-> <<>>] :
        c \in Confidences}
    \cup {[type |-> "exhaustion", symbol |-> "WDOFUT", confidence |-> c,
           metadata |-> [direction |-> d]] : c \in Confidences, d \in Directions}
    \cup {[type |-> "exhaustion", symbol |-> "WDOFUT", confidence |-> <<4, 5>>,
           metadata |-> <<>>],
          [type |-> "institutional", symbol |-> "WDOFUT", confidence |-> <<4, 5>>,
           metadata |-> [direction |-> "BULLISH"]]}

FlowAnalyses == {[flow_bias |-> d] : d \in Directions} \cup {<<>>}

PriceAnalyses ==
    {[current_price |-> c, high |-> h, low |-> l, average |-> a, range |-> h - l] :
        l \in {4998, 5000}, h \in {5000, 5002}, c \in {4998, 4999, 5000, 5001, 5002},
        a \in {4998, 5000, 5002}}

Analyses ==
    {[behaviors |-> b, flow |-> f, price |-> p] :
        b \in UNION {[1..n -> BehaviorPool] : n \in 0..MaxBehaviors},
        f \in FlowAnalyses,
        p \in {q \in PriceAnalyses : /\ q.low <= q.current_price
                                     /\ q.current_price <= q.high
                                     /\ q.average \in {q.low, q.high}}}

InitSignals ==
    /\ engine = NewEngine(FALSE)
    /\ db = NewDatabase
    /\ pc = "signals"
    /\ lifetime = 1
    /\ cycles = 0
    /\ hist = NewHist
    /\ last = Quiet("init")
    /\ provider = NewProvider
    /\ \E analysis \in Analyses : system = [NewSystem EXCEPT !.analysis = <<analysis>>]
    /\ detection = NoDetection
    /\ manager = NewManager
    /\ clock = 0

GenerateSignals ==
    /\ pc = "signals"
    /\ system' = generate_signals(system, system.analysis[1], clock)
    /\ pc' = "signalled"
    /\ UNCHANGED <<engine, db, lifetime, cycles, hist, last, provider, detection, manager,
                   clock>>

NextSignals == GenerateSignals

SpecSignals == InitSignals /\ [][NextSignals]_vars

\* The decision table of the signal rules, one row per behaviour:
\* <<side, entry, stop, target>>, or nothing.
TableRow(b, a) ==
    CASE b.type = "absorption" /\ Get(a.flow, "flow_bias", "NEUTRAL") = "BULLISH"
         /\ Exceeds(b.confidence, 7, 10)
           -> << <<"BUY", a.price.current_price, a.price.low,
                   a.price.current_price + 2 * a.price.range>> >>
      [] b.type = "absorption" /\ Get(a.flow, "flow_bias", "NEUTRAL") = "BEARISH"
         /\ Exceeds(b.confidence, 7, 10)
           -> << <<"SELL", a.price.current_price, a.price.high,
                   a.price.current_price - 2 * a.price.range>> >>
      [] b.type = "exhaustion" /\ Get(b.metadata, "direction", "NEUTRAL") = "BULLISH"
         /\ Exceeds(b.confidence, 3, 4)
           -> << <<"SELL", a.price.current_price, a.price.high + 2, a.price.average>> >>
      [] b.type = "exhaustion" /\ Get(b.metadata, "direction", "NEUTRAL") = "BEARISH"
         /\ Exceeds(b.confidence, 3, 4)
           -> << <<"BUY", a.price.current_price, a.price.low - 2, a.price.average>> >>
      [] OTHER -> <<>>

RECURSIVE Table(_, _)
Table(behaviors, a) ==
    IF behaviors = <<>> THEN <<>>
    ELSE TableRow(Head(behaviors), a) \o Table(Tail(behaviors), a)

Levels(signals) ==
    [i \in 1..Len(signals) |->
        <<signals[i].type, signals[i].entry, signals[i].stop, signals[i].target>>]

ZeroStopFires(a) == \E i \in 1..Len(a.behaviors) :
    /\ TableRow(a.behaviors[i], a) # <<>>
    /\ TableRow(a.behaviors[i], a)[1][2] = TableRow(a.behaviors[i], a)[1][3]

\* C11: a generate_signals call on an analysis in which a rule fires with
\* stop equal to entry does not raise.
C11_ZeroStopDoesNotRaise ==
    (pc = "signalled" /\ ZeroStopFires(system.analysis[1])) => ~system.raised

\* C12: the signals a generate_signals call returns are those of the
\* decision table, behaviour by behaviour.
C12_DecisionTable ==
    pc = "signalled" =>
        /\ ~system.raised
        /\ Levels(system.signals) = Table(system.analysis[1].behaviors, system.analysis[1])

\* C13: every signal emitted with stop different from entry carries
\* risk_reward = |target - entry| / |stop - entry|, which is 2 for entry
\* 5000, stop 4998, target 5004.
C13_RiskReward ==
    \A i \in 1..Len(system.active_signals) :
        LET sig == system.active_signals[i]
        IN sig.stop # sig.entry =>
             /\ sig.risk_reward[2] > 0
             /\ sig.risk_reward[1] * Abs(sig.stop - sig.entry)
                  = sig.risk_reward[2] * Abs(sig.target - sig.entry)
             /\ (sig.entry = 5000 /\ sig.stop = 4998 /\ sig.target = 5004)
                  => sig.risk_reward = <<2, 1>>

\* A call returned the signal with entry 5000, stop 4998 and target 5004.
C13_Witness ==
    /\ pc = "signalled"
    /\ \E i \in 1..Len(system.signals) :
         /\ system.signals[i].entry = 5000
         /\ system.signals[i].stop = 4998
         /\ system.signals[i].target = 5004
         /\ system.signals[i].risk_reward = <<2, 1>>

(***************************************************************************)
(* AbsorptionDetector with its default configuration.  A datetime is a     *)
(* number of seconds; a trade whose timestamp is not a datetime (the       *)
(* provider's strings, or none) has no "timestamp" field here.             *)
(***************************************************************************)
MinTrades == 10

\* timedelta.seconds: the seconds field of the normalised difference, which
\* leaves the days out.
Seconds(delta) == delta % 86400

\* The list comprehension of lines 27-31.
recent_trades(trades, now) ==
    SelectSeq(trades, LAMBDA t : /\ "timestamp" \in DOMAIN t
                                 /\ Seconds(now - t.timestamp) < time_window)

\* min(1.0, total_volume / (volume_threshold * 2)).
absorption_confidence(total_volume) ==
    IF total_volume >= volume_threshold * 2 THEN <<1, 1>>
    ELSE Quotient(total_volume, volume_threshold * 2)

\* max(prices) and min(prices).
Highest(S) == CHOOSE p \in S : \A q \in S : q <= p

Lowest(S) == CHOOSE p \in S : \A q \in S : q >= p

\* Lines 47-49: price_range / avg_price, 0 when the average is not positive.
price_impact(prices) ==
    IF SumSeq(prices) > 0
    THEN Quotient((Highest(Range(prices)) - Lowest(Range(prices))) * Len(prices),
                  SumSeq(prices))
    ELSE <<0, 1>>

\* Lines 52-68 for the prices and the volume of the recent trades.
absorption_found(recent, prices, total_volume, symbol, now) ==
    IF prices = <<>> THEN <<>>
    ELSE IF ~Exceeds(price_impact_max, price_impact(prices)[1], price_impact(prices)[2])
    THEN <<>>
    ELSE <<[type |-> "absorption", symbol |-> symbol, timestamp |-> now,
            confidence |-> absorption_confidence(total_volume),
            metadata |-> [volume |-> total_volume, price_impact |-> price_impact(prices),
                          trade_count |-> Len(recent), time_window |-> time_window]]>>

\* Lines 33-45 for the recent trades.
detect_recent(recent, symbol, now) ==
    IF recent = <<>> THEN <<>>
    ELSE IF VolumeOf(recent) < volume_threshold THEN <<>>
    ELSE absorption_found(recent,
                          PricesOf(SelectSeq(recent, LAMBDA t : t.price # 0)),
                          VolumeOf(recent), symbol, now)

\* detect without the test of line 22.
DetectAnyLength(trades, symbol, now) == detect_recent(recent_trades(trades, now), symbol, now)

\* AbsorptionDetector.detect: the optional Behavior.
absorption_detect(trades, symbol, now) ==
    IF Len(trades) < MinTrades THEN <<>>
    ELSE detect_recent(recent_trades(trades, now), symbol, now)

(***************************************************************************)
(* SpecAbsorption: one detect call on a list made of two runs of equal     *)
(* trades, of different ages, prices and volumes.                          *)
(***************************************************************************)
MaxRun == 10

Now == 100000

RunLengths == {0, 1, 5, MaxRun - 1, MaxRun}

AbsorptionTrades ==
    {[timestamp |-> Now - age, symbol |-> "WDOFUT", price |-> p, volume |-> v] :
        age \in {10, 70, 86410}, p \in {10000, 10001, 10002}, v \in {100, 200}}
    \cup {[symbol |-> "WDOFUT", price |-> 10000, volume |-> 200],
          [timestamp |-> Now + 10, symbol |-> "WDOFUT", price |-> 10000, volume |-> 200]}

Repeat(t, n) == [i \in 1..n |-> t]

TradeRuns ==
    {Repeat(a, n) \o Repeat(b, m) :
        a \in AbsorptionTrades, b \in AbsorptionTrades, n \in RunLengths, m \in RunLengths}

InitAbsorption ==
    /\ engine = NewEngine(FALSE)
    /\ db = NewDatabase
    /\ pc = "absorption"
    /\ lifetime = 1
    /\ cycles = 0
    /\ hist = NewHist
    /\ last = Quiet("init")
    /\ provider = NewProvider
    /\ system = NewSystem
    /\ \E trades \in TradeRuns :
         detection = [detector |-> "absorption", trades |-> trades, result |-> <<>>]
    /\ manager = NewManager
    /\ clock = Now

DetectAbsorption ==
    /\ pc = "absorption"
    /\ detection' = [detection EXCEPT
                       !.result = absorption_detect(detection.trades, "WDOFUT", clock)]
    /\ pc' = "detected"
    /\ UNCHANGED <<engine, db, lifetime, cycles, hist, last, provider, system, manager,
                   clock>>

NextAbsorption == DetectAbsorption

SpecAbsorption == InitAbsorption /\ [][NextAbsorption]_vars

\* The trades of the list that lie inside the time window: not older than
\* time_window seconds.
InWindow(trades, now) ==
    SelectSeq(trades, LAMBDA t : /\ "timestamp" \in DOMAIN t
                                 /\ now - t.timestamp >= 0
                                 /\ now - t.timestamp < time_window)

ImpactBelowMax(w) ==
    /\ w # <<>>
    /\ (Highest(Range(PricesOf(w))) - Lowest(Range(PricesOf(w)))) * Len(w)
          * price_impact_max[2] < price_impact_max[1] * SumSeq(PricesOf(w))

\* C14: detect returns a Behavior, of type ABSORPTION, exactly when the list
\* has at least 10 trades, the volume inside the time window reaches
\* volume_threshold and the price impact there is below price_impact_max;
\* its confidence is min(1, volume / (2 * volume_threshold)), within [0, 1].
C14_AbsorptionExactlyWhen ==
    pc = "detected" =>
        LET w == InWindow(detection.trades, clock)
        IN /\ detection.result # <<>>
                <=> (/\ Len(detection.trades) >= 10
                     /\ VolumeOf(w) >= volume_threshold
                     /\ ImpactBelowMax(w))
           /\ detection.result # <<>> =>
                /\ detection.result[1].type = "absorption"
                /\ detection.result[1].confidence
                     = IF VolumeOf(w) >= 2 * volume_threshold THEN <<1, 1>>
                       ELSE Quotient(VolumeOf(w), 2 * volume_threshold)

\* C15 as stated: a behaviour is returned only when at least 10 of the
\* trades supplied lie inside the time window.
C15_TenTradesInWindow ==
    (pc = "detected" /\ detection.result # <<>>)
        => Len(InWindow(detection.trades, clock)) >= 10

\* C15, amended: a behaviour is returned only when the list supplied has at
\* least 10 trades; those counted in the window are at least one.
C15_TenTradesSupplied ==
    (pc = "detected" /\ detection.result # <<>>)
        => /\ Len(detection.trades) >= 10
           /\ detection.result[1].metadata.trade_count \in 1..Len(detection.trades)

\* A behaviour was returned for five trades in the window out of ten.
C15_Witness ==
    /\ pc = "detected"
    /\ detection.result # <<>>
    /\ Len(detection.trades) = 10
    /\ detection.result[1].metadata.trade_count = 5
    /\ Len(InWindow(detection.trades, clock)) = 5

(***************************************************************************)
(* ExhaustionDetector with its default configuration.  Prices are in       *)
(* hundredths; a decay rate and a score are quotients.                     *)
(***************************************************************************)
\* One bar of _create_bars (lines 65-72).
bar_of(bar_trades) ==
    [open |-> Get(bar_trades[1], "price", 0),
     close |-> Get(bar_trades[Len(bar_trades)], "price", 0),
     high |-> Highest({Get(bar_trades[i], "price", 0) : i \in 1..Len(bar_trades)}),
     low |-> Lowest({Get(bar_trades[i], "price", 0) : i \in 1..Len(bar_trades)}),
     volume |-> SumSeq([i \in 1..Len(bar_trades) |-> Get(bar_trades[i], "volume", 0)]),
     trades |-> Len(bar_trades)]

\* range(0, len(trades), trades_per_bar) and the slices of line 63.
bars_by(trades, trades_per_bar) ==
    [k \in 1..((Len(trades) + trades_per_bar - 1) \div trades_per_bar) |->
        bar_of(SubSeq(trades, (k - 1) * trades_per_bar + 1,
                      Min(k * trades_per_bar, Len(trades))))]

create_bars(trades, num_bars) ==
    IF trades = <<>> THEN <<>>
    ELSE bars_by(trades, Max(1, Len(trades) \div num_bars))

\* The counting loops of lines 88-91 and 103-106, from index i on.
RECURSIVE count_declining(_, _, _)
count_declining(values, rate, i) ==
    IF i > Len(values) THEN 0
    ELSE (IF values[i] * rate[2] < values[i - 1] * rate[1] THEN 1 ELSE 0)
         + count_declining(values, rate, i + 1)

decline_score(values, rate) ==
    IF Len(values) > 1
    THEN Quotient(count_declining(values, rate, 2), Len(values) - 1)
    ELSE <<0, 1>>

check_momentum_decline(bars) ==
    IF Len(bars) < 2 THEN <<0, 1>>
    ELSE decline_score([i \in 1..(Len(bars) - 1) |-> Abs(bars[i + 1].close - bars[i].close)],
                       momentum_decay_rate)

\* A score that counts every decrease of volume, whatever its size.
VolumeAnyDecrease(bars) ==
    IF Len(bars) < 2 THEN <<0, 1>>
    ELSE decline_score([i \in 1..Len(bars) |-> bars[i].volume], <<1, 1>>)

check_volume_decline(bars) ==
    IF Len(bars) < 2 THEN <<0, 1>>
    ELSE decline_score([i \in 1..Len(bars) |-> bars[i].volume], volume_decay_rate)

\* The closes c, in hundredths, for which the double c * 1.001 lies below
\* the exact product: 5000.0 * 1.001 is 5004.999999999999, while
\* 100.0 * 1.001 is the double 100.1.  No close of the model has
\* c * 0.999 off the double of the exact product.
ProductBelowExact == {500000}

\* _get_direction: last_close > first_close * 1.001, else
\* last_close < first_close * 0.999, in floating point.
direction_of(first_close, last_close) ==
    IF \/ last_close * 1000 > first_close * 1001
       \/ last_close * 1000 = first_close * 1001 /\ first_close \in ProductBelowExact
    THEN "BULLISH"
    ELSE IF last_close * 1000 < first_close * 999 THEN "BEARISH"
    ELSE "NEUTRAL"

\* The direction with a threshold of 1% instead of 0.1%.
DirectionByPercent(bars) ==
    IF bars = <<>> THEN "NEUTRAL"
    ELSE IF bars[Len(bars)].close * 100 > bars[1].close * 101 THEN "BULLISH"
    ELSE IF bars[Len(bars)].close * 100 < bars[1].close * 99 THEN "BEARISH"
    ELSE "NEUTRAL"

get_direction(bars) ==
    IF bars = <<>> THEN "NEUTRAL"
    ELSE direction_of(bars[1].close, bars[Len(bars)].close)

\* (momentum_declining + volume_declining) / 2.
exhaustion_confidence(m, v) == Quotient(m[1] * v[2] + v[1] * m[2], 2 * m[2] * v[2])

\* Lines 36-52 for the two scores.
exhaustion_found(bars, m, v, symbol, now) ==
    IF m[1] # 0 /\ v[1] # 0
    THEN <<[type |-> "exhaustion", symbol |-> symbol, timestamp |-> now,
            confidence |-> exhaustion_confidence(m, v),
            metadata |-> [momentum_score |-> m, volume_score |-> v,
                          bars_analyzed |-> Len(bars),
                          direction |-> get_direction(bars)]]>>
    ELSE <<>>

detect_bars(bars, symbol, now) ==
    IF Len(bars) < confirmation_bars THEN <<>>
    ELSE exhaustion_found(bars, check_momentum_decline(bars), check_volume_decline(bars),
                          symbol, now)

\* ExhaustionDetector.detect: the optional Behavior.
exhaustion_detect(trades, symbol, now) ==
    IF Len(trades) < confirmation_bars * 10 THEN <<>>
    ELSE detect_bars(create_bars(trades, confirmation_bars + 2), symbol, now)

(***************************************************************************)
(* SpecExhaustion: one detect call on a list of about 30 trades, every     *)
(* sixth of which closes a bar; each bar's trades share a price and a      *)
(* volume.                                                                 *)
(***************************************************************************)
MaxExtra == 1

FirstCloses == {10000, 500000}

\* Closes of the bars after the first, in ten-thousandths of the first close.
MiddleOffsets == {0, 10, 16, 19, 90, 100}

LastOffsets == {-20, -10, 0, 10, 20}

VolumeProfiles == {<<16, 8, 4, 2, 1>>, <<10, 9, 8, 7, 6>>, <<5, 5, 5, 5, 5>>,
                   <<10, 10, 4, 4, 4>>}

CloseProfiles ==
    {<<c, c + a * (c \div 10000), c + b * (c \div 10000), c + d * (c \div 10000),
       c + e * (c \div 10000)>> :
        c \in FirstCloses, a \in MiddleOffsets, b \in MiddleOffsets, d \in MiddleOffsets,
        e \in LastOffsets}

ThirtyTrades(closes, volumes) ==
    [i \in 1..30 |-> [symbol |-> "WDOFUT", price |-> closes[(i - 1) \div 6 + 1],
                      volume |-> volumes[(i - 1) \div 6 + 1]]]

\* The list with its last trade left out, or repeated up to extra times.
Resized(trades, extra) ==
    IF extra < 0 THEN SubSeq(trades, 1, Len(trades) + extra)
    ELSE trades \o [i \in 1..extra |-> trades[Len(trades)]]

ExhaustionTrades ==
    {Resized(ThirtyTrades(c, v), x) :
        c \in CloseProfiles, v \in VolumeProfiles, x \in -1..MaxExtra}

InitExhaustion ==
    /\ engine = NewEngine(FALSE)
    /\ db = NewDatabase
    /\ pc = "exhaustion"
    /\ lifetime = 1
    /\ cycles = 0
    /\ hist = NewHist
    /\ last = Quiet("init")
    /\ provider = NewProvider
    /\ system = NewSystem
    /\ \E trades \in ExhaustionTrades :
         detection = [detector |-> "exhaustion", trades |-> trades, result |-> <<>>]
    /\ manager = NewManager
    /\ clock = Now

DetectExhaustion ==
    /\ pc = "exhaustion"
    /\ detection' = [detection EXCEPT
                       !.result = exhaustion_detect(detection.trades, "WDOFUT", clock)]
    /\ pc' = "exhausted"
    /\ UNCHANGED <<engine, db, lifetime, cycles, hist, last, provider, system, manager,
                   clock>>

NextExhaustion == DetectExhaustion

SpecExhaustion == InitExhaustion /\ [][NextExhaustion]_vars

\* The bars of the list handed to the detector, their absolute
\* close-to-close changes and their volumes.
Bars == create_bars(detection.trades, confirmation_bars + 2)

Changes == [i \in 1..(Len(Bars) - 1) |-> Abs(Bars[i + 1].close - Bars[i].close)]

Volumes == [i \in 1..Len(Bars) |-> Bars[i].volume]

\* The adjacent pairs whose later value is less than rate times the earlier.
Decaying(values, rate) ==
    {i \in 2..Len(values) : values[i] * rate[2] < values[i - 1] * rate[1]}

StrictlyDecreasing(values) == \A i \in 2..Len(values) : values[i] < values[i - 1]

Emitted == detection.result # <<>>

\* C16: a behaviour is emitted exactly when there are at least
\* confirmation_bars * 10 trades and both decline scores, the fractions of
\* decaying adjacent pairs, are positive; its confidence is their mean,
\* within (0, 1].
C16_ExhaustionExactlyWhen ==
    pc = "exhausted" =>
        LET m == Cardinality(Decaying(Changes, momentum_decay_rate))
            v == Cardinality(Decaying(Volumes, volume_decay_rate))
            conf == detection.result[1].confidence
        IN /\ Emitted <=> (Len(detection.trades) >= confirmation_bars * 10 /\ m > 0 /\ v > 0)
           /\ Emitted =>
                /\ conf[1] * 2 * (Len(Changes) - 1) * (Len(Volumes) - 1)
                     = conf[2] * (m * (Len(Volumes) - 1) + v * (Len(Changes) - 1))
                /\ conf[1] > 0
                /\ conf[1] <= conf[2]

\* A behaviour was emitted on scores below 1, for six bars.
C16_Witness ==
    /\ pc = "exhausted"
    /\ Emitted
    /\ Len(Bars) = 6
    /\ detection.result[1].confidence[1] < detection.result[1].confidence[2]

FiveBarsUp ==
    /\ pc = "exhausted"
    /\ Len(Bars) = 5
    /\ Bars[1].close = 10000
    /\ Bars[5].close = 10020

\* C17 as stated: five bars with strictly decreasing absolute changes and
\* strictly decreasing volumes, closing at 100 first and 100.2 last, give a
\* behaviour of direction BULLISH.
C17_StrictDecreaseEmits ==
    (FiveBarsUp /\ StrictlyDecreasing(Changes) /\ StrictlyDecreasing(Volumes))
        => (Emitted /\ detection.result[1].metadata.direction = "BULLISH")

\* C17, amended: for at least 30 trades forming five bars that close at 100
\* first and 100.2 last, a behaviour is emitted exactly when some change is
\* below momentum_decay_rate times the one before and some volume below
\* volume_decay_rate times the one before, and its direction is BULLISH.
C17_DecayingEmitsBullish ==
    (FiveBarsUp /\ Len(detection.trades) >= confirmation_bars * 10) =>
        /\ Emitted <=> (/\ Decaying(Changes, momentum_decay_rate) # {}
                        /\ Decaying(Volumes, volume_decay_rate) # {})
        /\ Emitted => detection.result[1].metadata.direction = "BULLISH"

\* Strictly decreasing changes and volumes from 100 to 100.2 gave a BULLISH
\* behaviour.
C17_Witness ==
    /\ FiveBarsUp
    /\ StrictlyDecreasing(Changes)
    /\ StrictlyDecreasing(Volumes)
    /\ Emitted
    /\ detection.result[1].metadata.direction = "BULLISH"

\* C18: the direction of an emitted behaviour is BULLISH exactly when the
\* last close is more than 0.1% above the first, BEARISH exactly when it is
\* more than 0.1% below, NEUTRAL otherwise.
C18_DirectionByThreshold ==
    (pc = "exhausted" /\ Emitted) =>
        detection.result[1].metadata.direction
            = IF Bars[Len(Bars)].close * 1000 > Bars[1].close * 1001 THEN "BULLISH"
              ELSE IF Bars[Len(Bars)].close * 1000 < Bars[1].close * 999 THEN "BEARISH"
              ELSE "NEUTRAL"

(***************************************************************************)
(* BehaviorManager, both detectors enabled with their defaults.            *)
(***************************************************************************)
BehaviorLifetime == 300

ActiveLimit == 50

ofSymbol(trades, symbol) == SelectSeq(trades, LAMBDA t : Get(t, "symbol", "") = symbol)

\* _detect_for_symbol: the behaviours of one symbol's trades.
detect_for_symbol(trades, symbol, now) ==
    (IF Len(trades) >= 10 THEN absorption_detect(trades, symbol, now) ELSE <<>>)
    \o (IF Len(trades) >= 30 THEN exhaustion_detect(trades, symbol, now) ELSE <<>>)

\* Lines 56-65: WDOFUT first, then DOLFUT.
detect_symbols(wdo_trades, dol_trades, now) ==
    (IF wdo_trades # <<>> THEN detect_for_symbol(wdo_trades, "WDOFUT", now) ELSE <<>>)
    \o (IF dol_trades # <<>> THEN detect_for_symbol(dol_trades, "DOLFUT", now) ELSE <<>>)

\* The list cut to its first ActiveLimit entries instead of its last.
UpdateKeepingOldest(active_behaviors, new_behaviors, now) ==
    SubSeq(SelectSeq(active_behaviors,
                     LAMBDA b : Seconds(now - b.timestamp) < BehaviorLifetime)
             \o new_behaviors,
           1, Min(ActiveLimit, Len(SelectSeq(active_behaviors,
                     LAMBDA b : Seconds(now - b.timestamp) < BehaviorLifetime)
             \o new_behaviors)))

\* _update_active_behaviors: prune, extend, keep the last ActiveLimit.
update_active_behaviors(active_behaviors, new_behaviors, now) ==
    LastN(SelectSeq(active_behaviors,
                    LAMBDA b : Seconds(now - b.timestamp) < BehaviorLifetime)
            \o new_behaviors,
          ActiveLimit)

detected(mgr, behaviors_detected, now) ==
    [mgr |-> [mgr EXCEPT !.active_behaviors =
                             update_active_behaviors(@, behaviors_detected, now)],
     behaviors_detected |-> behaviors_detected]

\* BehaviorManager.detect for the optional data: the manager and the list
\* returned.
manager_detect(mgr, data, now) ==
    IF data = <<>> \/ Get(data[1], "trades", <<>>) = <<>>
    THEN [mgr |-> mgr, behaviors_detected |-> <<>>]
    ELSE detected(mgr,
                  detect_symbols(ofSymbol(data[1].trades, "WDOFUT"),
                                 ofSymbol(data[1].trades, "DOLFUT"), now),
                  now)

get_active_behaviors(mgr) == mgr.active_behaviors

\* Calls stop once this many behaviours have been added.
MaxAdded == 52

MaxTicks == 2

\* Seconds between two calls: a moment, the lifetime, a day.
Elapses == {1, BehaviorLifetime, 86400}

Stamped(trades, symbol, timestamp) ==
    [i \in 1..Len(trades) |->
        [symbol |-> symbol, price |-> trades[i].price, volume |-> trades[i].volume,
         timestamp |-> timestamp]]

\* Thirty trades of one symbol that both detectors accept.
BusyTrades(symbol, now) ==
    Stamped(ThirtyTrades(<<10000, 10001, 10001, 10001, 10001>>, <<160, 80, 40, 20, 10>>),
            symbol, now - 10)

\* What a caller passes to detect: nothing, data without trades, data with an
\* empty trade list, one trade, and thirty trades of each symbol.
ManagerData(now) ==
    {<<>>,
     <<[timestamp |-> now]>>,
     <<[trades |-> <<>>]>>,
     <<[trades |-> Stamped(<<[price |-> 10000, volume |-> 5]>>, "WDOFUT", now - 10)]>>,
     <<[trades |-> BusyTrades("WDOFUT", now) \o BusyTrades("DOLFUT", now)]>>}

InitManager ==
    /\ engine = NewEngine(FALSE)
    /\ db = NewDatabase
    /\ pc = "manager"
    /\ lifetime = 1
    /\ cycles = 0
    /\ hist = [added |-> <<>>, ticks |-> 0]
    /\ last = Quiet("init")
    /\ provider = NewProvider
    /\ system = NewSystem
    /\ detection = NoDetection
    /\ manager = NewManager
    /\ clock = 0

detect_done(r, data) ==
    /\ manager' = r.mgr
    /\ detection' = [detector |-> "manager",
                     trades |-> IF data = <<>> THEN <<>> ELSE Get(data[1], "trades", <<>>),
                     result |-> r.behaviors_detected]
    /\ hist' = [hist EXCEPT !.added = @ \o r.behaviors_detected]

ManagerDetect ==
    /\ pc = "manager"
    /\ Len(hist.added) < MaxAdded
    /\ \E data \in ManagerData(clock) : detect_done(manager_detect(manager, data, clock), data)
    /\ last' = Quiet("detect")
    /\ UNCHANGED <<engine, db, pc, lifetime, cycles, provider, system, clock>>

Tick ==
    /\ pc = "manager"
    /\ hist.ticks < MaxTicks
    /\ \E elapsed \in Elapses : clock' = clock + elapsed
    /\ hist' = [hist EXCEPT !.ticks = @ + 1]
    /\ last' = Quiet("tick")
    /\ UNCHANGED <<engine, db, pc, lifetime, cycles, provider, system, detection, manager>>

NextManager == ManagerDetect \/ Tick

SpecManager == InitManager /\ [][NextManager]_vars

Age(b) == clock - b.timestamp

IsSuffix(s, t) == Len(s) <= Len(t) /\ s = SubSeq(t, Len(t) - Len(s) + 1, Len(t))

Unexpired(behaviors) == SelectSeq(behaviors, LAMBDA b : Age(b) < BehaviorLifetime)

\* C19: after any call to detect, whatever its data, get_active_behaviors
\* returns no behaviour older than five minutes.
C19_EveryCallPrunes ==
    last.op = "detect" =>
        \A i \in 1..Len(get_active_behaviors(manager)) :
            Age(get_active_behaviors(manager)[i]) <= BehaviorLifetime

\* C20: active_behaviors never holds more than 50 entries and is always the
\* tail, in insertion order, of the behaviours added so far; a call that has
\* more than 50 unexpired behaviours at hand leaves exactly 50.
C20_FiftyMostRecent ==
    /\ [](/\ Len(manager.active_behaviors) <= ActiveLimit
          /\ IsSuffix(manager.active_behaviors, hist.added))
    /\ [][(/\ last'.op = "detect"
           /\ Len(Unexpired(manager.active_behaviors)) + Len(detection'.result)
                > ActiveLimit)
          => /\ Len(manager'.active_behaviors) = ActiveLimit
             /\ manager'.active_behaviors
                  = LastN(Unexpired(manager.active_behaviors) \o detection'.result,
                          ActiveLimit)]_vars

C20_Witness ==
    /\ last.op = "detect"
    /\ Len(manager.active_behaviors) = ActiveLimit
    /\ Len(hist.added) > ActiveLimit
    /\ detection.result # <<>>

(***************************************************************************)
(* SpecConfig: update_config calls between the detect calls of a manager   *)
(* built from an empty configuration.  A configuration is a dict of dicts; *)
(* cycles counts the update_config calls.                                  *)
(***************************************************************************)
\* BehaviorManager.update_config: the dicts are stored, in the manager and
\* in each detector's config attribute.
update_config(mgr, config) ==
    [mgr EXCEPT
       !.config = config,
       !.absorption_detector.config = Get(Get(config, "behaviors", <<>>), "absorption", <<>>),
       !.exhaustion_detector.config = Get(Get(config, "behaviors", <<>>), "exhaustion", <<>>)]

MaxUpdates == 2

AbsorptionConfigs ==
    {[enabled |-> TRUE],
     [enabled |-> TRUE, volume_threshold |-> 5000],
     [enabled |-> TRUE, volume_threshold |-> 500],
     [enabled |-> TRUE, time_window |-> 5],
     [enabled |-> TRUE, price_impact_max |-> <<1, 100000>>]}

ExhaustionConfigs ==
    {[enabled |-> TRUE],
     [enabled |-> TRUE, momentum_decay_rate |-> <<0, 1>>],
     [enabled |-> TRUE, volume_decay_rate |-> <<2, 5>>],
     [enabled |-> TRUE, confirmation_bars |-> 4]}

Configs ==
    {[behaviors |-> [absorption |-> a, exhaustion |-> e]] :
        a \in AbsorptionConfigs, e \in ExhaustionConfigs}
    \cup {[database |-> [save_interval |-> 10]]}

UpdateConfig ==
    /\ pc = "manager"
    /\ cycles < MaxUpdates
    /\ \E config \in Configs : manager' = update_config(manager, config)
    /\ cycles' = cycles + 1
    /\ last' = Quiet("update_config")
    /\ UNCHANGED <<engine, db, pc, lifetime, hist, provider, system, detection, clock>>

NextConfig == ManagerDetect \/ UpdateConfig

SpecConfig == InitManager /\ [][NextConfig]_vars

\* What a detector with the parameters of the dict cfg returns.
AbsorptionWith(w, vt, pim, tw, symbol, now) ==
    IF w = <<>> \/ VolumeOf(w) < vt THEN <<>>
    ELSE IF SelectSeq(w, LAMBDA t : t.price # 0) = <<>> THEN <<>>
    ELSE IF ~Exceeds(pim, price_impact(PricesOf(SelectSeq(w, LAMBDA t : t.price # 0)))[1],
                     price_impact(PricesOf(SelectSeq(w, LAMBDA t : t.price # 0)))[2])
    THEN <<>>
    ELSE <<[type |-> "absorption", symbol |-> symbol, timestamp |-> now,
            confidence |-> IF VolumeOf(w) >= vt * 2 THEN <<1, 1>>
                           ELSE Quotient(VolumeOf(w), vt * 2),
            metadata |-> [volume |-> VolumeOf(w),
                          price_impact |->
                              price_impact(PricesOf(SelectSeq(w, LAMBDA t : t.price # 0))),
                          trade_count |-> Len(w), time_window |-> tw]]>>

ExpectedAbsorption(cfg, trades, symbol, now) ==
    IF Len(trades) < MinTrades THEN <<>>
    ELSE AbsorptionWith(
             SelectSeq(trades,
                       LAMBDA t : /\ "timestamp" \in DOMAIN t
                                  /\ Seconds(now - t.timestamp)
                                       < Get(cfg, "time_window", time_window)),
             Get(cfg, "volume_threshold", volume_threshold),
             Get(cfg, "price_impact_max", price_impact_max),
             Get(cfg, "time_window", time_window), symbol, now)

ExhaustionWith(bars, mr, vr, cb, symbol, now) ==
    IF Len(bars) < cb THEN <<>>
    ELSE exhaustion_found(
             bars,
             IF Len(bars) < 2 THEN <<0, 1>>
             ELSE decline_score([i \in 1..(Len(bars) - 1) |->
                                    Abs(bars[i + 1].close - bars[i].close)], mr),
             IF Len(bars) < 2 THEN <<0, 1>>
             ELSE decline_score([i \in 1..Len(bars) |-> bars[i].volume], vr),
             symbol, now)

ExpectedExhaustion(cfg, trades, symbol, now) ==
    IF Len(trades) < Get(cfg, "confirmation_bars", confirmation_bars) * 10 THEN <<>>
    ELSE ExhaustionWith(
             create_bars(trades, Get(cfg, "confirmation_bars", confirmation_bars) + 2),
             Get(cfg, "momentum_decay_rate", momentum_decay_rate),
             Get(cfg, "volume_decay_rate", volume_decay_rate),
             Get(cfg, "confirmation_bars", confirmation_bars), symbol, now)

ExpectedForSymbol(behaviors, trades, symbol, now) ==
    IF trades = <<>> THEN <<>>
    ELSE (IF Len(trades) >= 10
          THEN ExpectedAbsorption(Get(behaviors, "absorption", <<>>), trades, symbol, now)
          ELSE <<>>)
         \o (IF Len(trades) >= 30
             THEN ExpectedExhaustion(Get(behaviors, "exhaustion", <<>>), trades, symbol, now)
             ELSE <<>>)

ExpectedDetected(config, trades, now) ==
    ExpectedForSymbol(Get(config, "behaviors", <<>>), ofSymbol(trades, "WDOFUT"),
                      "WDOFUT", now)
    \o ExpectedForSymbol(Get(config, "behaviors", <<>>), ofSymbol(trades, "DOLFUT"),
                         "DOLFUT", now)

\* C21: a detect call made after update_config(c) returns what detectors
\* holding the parameters of c return for its trades.
C21_UpdateConfigApplies ==
    (last.op = "detect" /\ cycles > 0)
        => detection.result = ExpectedDetected(manager.config, detection.trades, clock)

(***************************************************************************)
(* SpecSource: the engine of Spec polling a data source whose read can     *)
(* fail.                                                                   *)
(***************************************************************************)
\* The read raising out of get_data instead of being caught there.
ReadErrorRaised(pr) == {[pr |-> pr, raised |-> TRUE]}

\* get_data when the sheet cannot be read: the error reaches the handler of
\* lines 235-239, which returns None, or _read_trades has caught it and
\* returned no trades.
read_failures(pr) ==
    {[pr |-> [pr EXCEPT !.returned = <<>>, !.candidates = <<>>], raised |-> FALSE],
     [pr |-> get_data(pr, <<>>, <<>>, pr.processed_trades), raised |-> FALSE]}

\* The pass of the loop of start() for the outcome o of get_data.
source_polled(e, d, o) ==
    IF o.raised
    THEN after_trades([e |-> e, d |-> d, raised |-> TRUE, flush |-> "none",
                       accepted |-> <<>>, evicted |-> FALSE, batch |-> <<>>],
                      <<>>, 0, {})
    ELSE poll_cycle(e, d, o.pr.returned, e.saved_trade_hashes, 0, {})

read_handled(r) ==
    /\ engine' = r.e
    /\ db' = r.d
    /\ pc' = IF r.raised THEN "exited" ELSE "sleep"
    /\ last' = [op |-> "read_failed", raised |-> r.raised, flush |-> r.flush,
                batch |-> r.batch]

ReadFailed ==
    /\ pc = "get_data"
    /\ \E o \in read_failures(provider) :
          /\ provider' = o.pr
          /\ read_handled(source_polled(engine, db, o))
    /\ UNCHANGED <<system, detection, manager, clock, lifetime, cycles, hist>>

NextSource == Next \/ ReadFailed

SpecSource == Init /\ [][NextSource]_vars

\* C22: a poll whose read fails changes nothing in the engine nor in the
\* database, leaves is_running as it was and start() at its sleep; the next
\* step of a running start() is another poll.
C22_ReadFailureNotFatal ==
    /\ [][last'.op = "read_failed" =>
            /\ engine' = engine
            /\ db' = db
            /\ ~last'.raised
            /\ pc' = "sleep"]_vars
    /\ [][(last.op = "read_failed" /\ engine.is_running /\ pc' # pc)
            => pc' = "get_data"]_vars

\* A pass accepted and flushed trades after an earlier read had failed.
C22_Witness ==
    /\ ~provider.first_run
    /\ lifetime = 1
    /\ last.op = "cycle"
    /\ last.flush = "ok"
    /\ engine.is_running

hash_trade(trade) ==
    <<Str(trade, "timestamp"), Str(trade, "symbol"), Str(trade, "price"),
      Str(trade, "volume")>>

HashesOf(trades) == {hash_trade(trades[i]) : i \in 1..Len(trades)}

\* Lines 379-385: the trades of the list whose hash is not among hashes.
Unmatched(trades, hashes) == SelectSeq(trades, LAMBDA t : hash_trade(t) \notin hashes)

\* Lines 388-391, as a quotient.
match_rate(expected_trades, missing) ==
    IF expected_trades = <<>> THEN <<0, 1>>
    ELSE Quotient((Len(expected_trades) - Len(missing)) * 100, Len(expected_trades))

\* Lines 361-397 for the missing and the extra trades.
validation_result(expected_trades, actual_trades, missing, extra) ==
    [status |-> IF missing # <<>> THEN "ERROR"
                ELSE IF extra # <<>> THEN "WARNING" ELSE "OK",
     expected_count |-> Len(expected_trades),
     actual_count |-> Len(actual_trades),
     missing |-> missing,
     extra |-> extra,
     match_rate |-> match_rate(expected_trades, missing)]

\* _save_validation_log: one row; an error of the insert (a closed
\* connection, a storage fault) is caught and logged only.
save_validation_log(conn, log, result, fault) ==
    IF conn # "open" \/ fault THEN log
    ELSE Append(log, [check_type |-> "TRADE_VALIDATION",
                      expected_count |-> result.expected_count,
                      actual_count |-> result.actual_count,
                      missing_trades |-> SubSeq(result.missing, 1,
                                                Min(10, Len(result.missing))),
                      extra_trades |-> SubSeq(result.extra, 1, Min(10, Len(result.extra))),
                      status |-> result.status])

\* validate_trades: the result returned.
validate(expected_trades, actual_trades) ==
    validation_result(expected_trades, actual_trades,
                      Unmatched(expected_trades, HashesOf(actual_trades)),
                      Unmatched(actual_trades, HashesOf(expected_trades)))

MaxListed == 2

\* TradeA as a sale, and TradeA at another price.
TradeASold == [TradeA EXCEPT !.side = "SELL"]

TradeARepriced == [TradeA EXCEPT !.price = 11]

ValidationPool == {TradeA, TradeASold, TradeARepriced, TradeB, NoTimestamp}

TradeLists == UNION {[1..n -> ValidationPool] : n \in 0..MaxListed}

InitValidation ==
    /\ engine = NewEngine(FALSE)
    /\ \E conn \in {"open", "closed"} : db = [NewDatabase EXCEPT !.conn = conn]
    /\ pc = "validate"
    /\ lifetime = 1
    /\ cycles = 0
    /\ \E expected_trades \in TradeLists, actual_trades \in TradeLists :
         hist = [expected |-> expected_trades, actual |-> actual_trades, result |-> <<>>]
    /\ last = Quiet("init")
    /\ provider = NewProvider
    /\ Elsewhere

ValidateTrades(fault) ==
    /\ pc = "validate"
    /\ hist' = [hist EXCEPT !.result = <<validate(hist.expected, hist.actual)>>]
    /\ db' = [db EXCEPT !.validation_log =
                  save_validation_log(db.conn, @, validate(hist.expected, hist.actual),
                                      fault)]
    /\ pc' = "validated"
    /\ last' = Quiet("validate")
    /\ UNCHANGED <<engine, lifetime, cycles, provider, system, detection, manager, clock>>

NextValidation == \E fault \in BOOLEAN : ValidateTrades(fault)

SpecValidation == InitValidation /\ [][NextValidation]_vars

\* The trades of the first list that are not, field by field, in the second.
Missing(a, b) == {i \in 1..Len(a) : \A j \in 1..Len(b) : ~SameTrade(a[i], b[j])}

\* C24: the status is ERROR exactly when an expected trade is missing from
\* actual, WARNING exactly when none is missing and actual holds a trade
\* that is not expected, OK exactly when the two sets match, and the result
\* is a row of the validation log.
C24_StatusByDifference ==
    pc = "validated" =>
        /\ hist.result[1].status
             = IF Missing(hist.expected, hist.actual) # {} THEN "ERROR"
               ELSE IF Missing(hist.actual, hist.expected) # {} THEN "WARNING"
               ELSE "OK"
        /\ Len(db.validation_log) = 1
        /\ db.validation_log[1].status = hist.result[1].status

(***************************************************************************)
(* Side.opposite.  SpecSide: the property read over and over, starting     *)
(* from the side of a trade; hist.sides lists the values obtained.         *)
(***************************************************************************)
Sides == {"BUY", "SELL"}

\* A property that answers SELL whatever the side.
OppositeAlwaysSell(side) == "SELL"

opposite(side) == IF side = "BUY" THEN "SELL" ELSE "BUY"

MaxFlips == 3

InitSide ==
    /\ engine = NewEngine(FALSE)
    /\ db = NewDatabase
    /\ pc = "side"
    /\ lifetime = 1
    /\ cycles = 0
    /\ \E side \in Sides, symbol \in {"WDOFUT", "DOLFUT"}, price \in {5000, 5001, 5002},
          volume \in {100, 200, 300} :
         hist = [trade |-> [symbol |-> symbol, price |-> price, volume |-> volume,
                            side |-> side, aggressor |-> TRUE],
                 sides |-> <<side>>]
    /\ last = Quiet("init")
    /\ provider = NewProvider
    /\ Elsewhere

Opposite ==
    /\ pc = "side"
    /\ cycles < MaxFlips
    /\ hist' = [hist EXCEPT !.sides = Append(@, opposite(@[Len(@)]))]
    /\ cycles' = cycles + 1
    /\ last' = Quiet("opposite")
    /\ UNCHANGED <<engine, db, pc, lifetime, provider, system, detection, manager, clock>>

NextSide == Opposite

SpecSide == InitSide /\ [][NextSide]_vars

\* C25: the opposite of BUY is SELL, the opposite of SELL is BUY, no side is
\* its own opposite and the opposite of the opposite is the side itself.
C25_OppositeInvolution ==
    /\ \A i \in 1..(Len(hist.sides) - 1) :
          /\ hist.sides[i] = "BUY" => hist.sides[i + 1] = "SELL"
          /\ hist.sides[i] = "SELL" => hist.sides[i + 1] = "BUY"
          /\ hist.sides[i + 1] # hist.sides[i]
    /\ \A i \in 1..(Len(hist.sides) - 2) : hist.sides[i + 2] = hist.sides[i]

\* The property was read twice in a row starting from a sale.
C25_Witness ==
    /\ Len(hist.sides) >= 3
    /\ hist.trade.side = "SELL"
    /\ hist.sides[2] = "BUY"
    /\ hist.sides[3] = "SELL"

(***************************************************************************)
(* Snapshot gating, checked under SpecBook.                                *)
(***************************************************************************)
\* The book of the last row of book_snapshots, none when the table is empty.
LastPersisted(snaps) ==
    IF snaps = <<>> THEN <<>>
    ELSE <<[bids |-> snaps[Len(snaps)].bids, asks |-> snaps[Len(snaps)].asks]>>

\* The book differs significantly from the optional prior one: there is no
\* prior one, a top price differs, or a top volume differs by more than half
\* of the prior volume.
Significant(prior, book) ==
    \/ prior = <<>>
    \/ ~TopWithin(prior[1], book, 50)

\* C26: a read persists a snapshot exactly when its book differs
\* significantly from the last persisted snapshot.
C26_PersistedWhenSignificant ==
    [][cycles' = cycles + 1 =>
         (hist'.added > 0
            <=> Significant(LastPersisted(db.book_snapshots),
                            hist'.reads[Len(hist'.reads)]))]_vars

(***************************************************************************)
(* The rows of price_levels, checked under SpecLevels.  The table's        *)
(* UNIQUE(symbol, price, level_type) is what makes price_levels a function *)
(* of that key.                                                            *)
(***************************************************************************)
\* The key the call recorded in last is about.
TouchedKey(call, tbl) ==
    <<call.symbol, call.price, detect_level_type(tbl, call.symbol, call.price)>>

\* The counters of the row k after a call that met no storage error.
TouchApplied(before, after, k, volume) ==
    /\ DOMAIN after = DOMAIN before \cup {k}
    /\ \A j \in DOMAIN before \ {k} : after[j] = before[j]
    /\ IF k \in DOMAIN before
       THEN /\ after[k].touch_count = before[k].touch_count + 1
            /\ after[k].volume_traded = before[k].volume_traded + volume
       ELSE /\ after[k].touch_count = 1
            /\ after[k].strength = 1
            /\ after[k].volume_traded = volume

\* C30: a call creates the row of its (symbol, price, level_type) with
\* touch_count 1 and strength 1 when there is none, and otherwise adds 1 to
\* touch_count and the volume to volume_traded; every row always has
\* strength = min(touch_count, 10).
C30_LevelRows ==
    /\ [][last'.op = "touch" =>
            IF last'.batch[1].fault THEN db'.price_levels = db.price_levels
            ELSE TouchApplied(db.price_levels, db'.price_levels,
                              TouchedKey(last'.batch[1], db.trades),
                              last'.batch[1].volume)]_vars
    /\ [](\A k \in DOMAIN db.price_levels :
             db.price_levels[k].strength = Min(db.price_levels[k].touch_count, 10))

\* Two rows of one price, of different level types, one of them touched
\* more than once.
C30_Witness ==
    \E k, j \in DOMAIN db.price_levels :
        /\ k # j
        /\ k[2] = j[2]
        /\ db.price_levels[k].touch_count >= 2
        /\ db.price_levels[k].volume_traded > db.price_levels[k].touch_count

(***************************************************************************)
(* The eviction of saved_trade_hashes, checked under Spec.                 *)
(***************************************************************************)
\* C27: the eviction keeps the most recently inserted hashes, so the hash of
\* a trade that is still in trade_buffer is never evicted: after every pass
\* every buffered trade has its hash in saved_trade_hashes.
C27_BufferedHashesKept ==
    last.op = "cycle" =>
        \A i \in 1..Len(engine.trade_buffer) :
            generate_trade_hash(engine.trade_buffer[i]) \in engine.saved_trade_hashes

(***************************************************************************)
(* The size of trade_buffer between passes, checked under Spec.            *)
(***************************************************************************)
\* C29: at the end of every _process_trades call that returns normally the
\* buffer holds fewer than save_interval trades.
C29_BufferBelowInterval ==
    (last.op = "cycle" /\ ~last.raised) => Len(engine.trade_buffer) < save_interval

\* A pass whose trades filled the buffer and whose flush emptied it.
C29_Witness ==
    /\ last.op = "cycle"
    /\ ~last.raised
    /\ last.flush = "ok"
    /\ Len(last.batch) >= save_interval
    /\ engine.trade_buffer = <<>>

(***************************************************************************)
(* The engine with healthy storage and a fair event loop: every step of    *)
(* start() that is ready is eventually run (initialisation, the return of  *)
(* get_data with or without data, the return of asyncio.sleep), and main() *)
(* eventually reaches its finally clause, which calls stop().              *)
(***************************************************************************)
HealthyCycle ==
    /\ pc = "get_data"
    /\ cycles < MaxCycles
    /\ \E data \in Results :
         \E keep \in KeepChoices(HashesAfter(engine, db, data)) : Cycle(data, keep, 0)

Polled == HealthyCycle \/ Idle

NextHealthy ==
    \/ Start
    \/ HealthyCycle
    \/ Idle
    \/ SleepDone(0)
    \/ Stop(0)
    \/ Restart

SpecHealthy ==
    /\ Init
    /\ [][NextHealthy]_vars
    /\ WF_vars(Start)
    /\ WF_vars(Polled)
    /\ WF_vars(SleepDone(0))
    /\ WF_vars(Stop(0))

Buffered(t) == \E i \in 1..Len(engine.trade_buffer) : engine.trade_buffer[i] = t

\* The engine has shut down: stop() has closed the connection and start()
\* has ended.
ShutDown == pc = "exited" /\ db.conn = "closed" /\ ~engine.is_running

\* C28: with healthy storage and a fair loop every trade placed in
\* trade_buffer eventually is in the trades table, and after shutdown no
\* trade this engine accepted is missing from the table.
C28_AcceptedEventuallyPersisted ==
    /\ \A t \in TradePool : Buffered(t) ~> Persisted(t)
    /\ [](ShutDown => \A t \in TradePool : hist.acc[t] > 0 => Persisted(t))

(***************************************************************************)
(* Level updates against accepted trades, checked under Spec.              *)
(***************************************************************************)
RECURSIVE SumOver(_, _)
SumOver(f, S) ==
    IF S = {} THEN 0
    ELSE LET x == CHOOSE y \in S : TRUE IN f[x] + SumOver(f, S \ {x})

\* The touch counts of the rows of a symbol, summed.
TouchSum(levels, symbol) ==
    SumOver([k \in DOMAIN levels |-> levels[k].touch_count],
            {k \in DOMAIN levels : k[1] = symbol})

\* The records of a symbol this engine accepted as unique.
AcceptedOf(symbol) ==
    SumOver(hist.acc, {t \in TradePool : "symbol" \in DOMAIN t /\ t.symbol = symbol})

\* C31: on a fresh database, while the connection has not been closed, the
\* touch counts of the price_levels rows of a symbol add up to the number of
\* records of that symbol accepted as unique.
C31_TouchedOncePerAccepted ==
    (lifetime = 1 /\ db.conn # "closed") =>
        \A symbol \in {"WDOFUT", "DOLFUT"} :
            TouchSum(db.price_levels, symbol) = AcceptedOf(symbol)

(***************************************************************************)
(* SpecLevelType: _detect_level_type applied to a trades table made of     *)
(* runs of rows, each run of one symbol and one price, oldest run first.   *)
(* hist holds the table, the arguments and, once called, the result.       *)
(***************************************************************************)
MaxRuns == 3

LevelPrices == {10, 11, 12}

RunOf(symbol, price, n) == [i \in 1..n |-> [TradeA EXCEPT !.symbol = symbol, !.price = price]]

RunPool == {RunOf(symbol, price, n) : symbol \in {"WDOFUT", "DOLFUT"},
                                      price \in LevelPrices, n \in {1, LevelHistory}}

RECURSIVE Flatten(_)
Flatten(runs) == IF runs = <<>> THEN <<>> ELSE Head(runs) \o Flatten(Tail(runs))

TradeTables == {Flatten(runs) : runs \in UNION {[1..n -> RunPool] : n \in 0..MaxRuns}}

InitLevelType ==
    /\ engine = NewEngine(FALSE)
    /\ db = [NewDatabase EXCEPT !.conn = "open"]
    /\ pc = "level_type"
    /\ lifetime = 1
    /\ cycles = 0
    /\ \E tbl \in TradeTables, symbol \in {"WDOFUT", "DOLFUT"}, price \in LevelPrices :
         hist = [table |-> tbl, symbol |-> symbol, price |-> price, result |-> "none"]
    /\ last = Quiet("init")
    /\ provider = NewProvider
    /\ Elsewhere

DetectLevelType ==
    /\ pc = "level_type"
    /\ hist' = [hist EXCEPT !.result = detect_level_type(hist.table, hist.symbol, hist.price)]
    /\ pc' = "typed"
    /\ last' = Quiet("detect_level_type")
    /\ UNCHANGED <<system, detection, manager, clock, engine, db, lifetime, cycles, provider>>

NextLevelType == DetectLevelType

SpecLevelType == InitLevelType /\ [][NextLevelType]_vars

\* The positions of the rows of a symbol that have fewer than n rows of the
\* symbol after them.
RecentOf(tbl, symbol, n) ==
    {i \in 1..Len(tbl) :
        /\ tbl[i].symbol = symbol
        /\ Cardinality({j \in (i + 1)..Len(tbl) : tbl[j].symbol = symbol}) < n}

PriceSum(tbl, rows) == SumOver([i \in 1..Len(tbl) |-> tbl[i].price], rows)

\* The type the history of the symbol alone gives: the price against the
\* mean of rows, as price * count against the sum.
TypeFrom(tbl, rows, price) ==
    IF rows = {} THEN "PIVOT"
    ELSE IF price * Cardinality(rows) > PriceSum(tbl, rows) THEN "RESISTANCE"
    ELSE IF price * Cardinality(rows) < PriceSum(tbl, rows) THEN "SUPPORT"
    ELSE hist.result

\* C32: the result is RESISTANCE when the price is above the mean price of
\* the last 100 trades of the symbol, SUPPORT when it is below, and PIVOT
\* exactly when the symbol has no trade; rows of the other symbol do not
\* matter.
C32_LevelTypeBySymbolMean ==
    pc = "typed" =>
        /\ hist.result = TypeFrom(hist.table, RecentOf(hist.table, hist.symbol, 100),
                                  hist.price)
        /\ hist.result = "PIVOT" <=> \A i \in 1..Len(hist.table) :
                                        hist.table[i].symbol # hist.symbol
        /\ hist.result = detect_level_type(SelectSeq(hist.table,
                                              LAMBDA r : r.symbol = hist.symbol),
                                           hist.symbol, hist.price)

\* More than 100 trades of the symbol, the older ones cheaper, and trades of
\* the other symbol stored after them at a higher price.
C32_Witness ==
    /\ pc = "typed"
    /\ hist.result = "SUPPORT"
    /\ Cardinality({i \in 1..Len(hist.table) : hist.table[i].symbol = hist.symbol}) > 100
    /\ hist.table[1].symbol = hist.symbol
    /\ hist.table[1].price < hist.price
    /\ hist.table[Len(hist.table)].symbol # hist.symbol
    /\ hist.table[Len(hist.table)].price > hist.price

(***************************************************************************)
(* The bars of _create_bars, checked under SpecExhaustion.                 *)
(***************************************************************************)
\* C33: a list of at least confirmation_bars * 10 trades is cut into exactly
\* confirmation_bars + 2 bars that together hold every trade once, all but
\* the last of one size.
C33_ExactlyNumBars ==
    (pc = "exhausted" /\ Len(detection.trades) >= confirmation_bars * 10) =>
        /\ Len(Bars) = confirmation_bars + 2
        /\ SumSeq([i \in 1..Len(Bars) |-> Bars[i].trades]) = Len(detection.trades)
        /\ \A i \in 1..(Len(Bars) - 1) : Bars[i].trades = Bars[1].trades

(***************************************************************************)
(* The trades a detection counts, checked under SpecAbsorption.            *)
(***************************************************************************)
\* C34: the trades counted in the volume of a detection are those whose
\* timestamp t has 0 <= now - t < time_window; older trades and trades of
\* the future are left out.
C34_CountedInsideWindow ==
    (pc = "detected" /\ detection.result # <<>>) =>
        /\ detection.result[1].metadata.trade_count = Len(InWindow(detection.trades, clock))
        /\ detection.result[1].metadata.volume = VolumeOf(InWindow(detection.trades, clock))

(***************************************************************************)
(* The identity validate_trades matches by, checked under SpecValidation.  *)
(***************************************************************************)
\* The trades of a list that the dedup hash finds in no trade of the other.
NoTwinIn(trades, others) ==
    SelectSeq(trades, LAMBDA t : \A i \in 1..Len(others) : ~SameTrade(t, others[i]))

\* C35: validate_trades matches trades exactly as the dedup hash does, by
\* (timestamp, symbol, side, price, volume): the missing trades are the
\* expected ones with no dedup-equal actual trade, the extra ones the actual
\* trades with no dedup-equal expected trade.
C35_ValidatesByDedupIdentity ==
    pc = "validated" =>
        /\ hist.result[1].missing = NoTwinIn(hist.expected, hist.actual)
        /\ hist.result[1].extra = NoTwinIn(hist.actual, hist.expected)

(***************************************************************************)
(* The hourly buckets of market_stats, checked under Spec.                 *)
(***************************************************************************)
\* Every record of the batch carries what update_market_stats reads.
Complete(batch) ==
    \A i \in 1..Len(batch) : {"symbol", "volume", "price", "side"} \subseteq DOMAIN batch[i]

\* A flush has just handed batch to update_market_stats, which wrote it.
StatsWritten ==
    /\ last.flush \in {"ok", "failed"}
    /\ last.batch # <<>>
    /\ Complete(last.batch)

Buckets(batch) == {BucketOf(batch[i]) : i \in 1..Len(batch)}

InBucket(batch, bucket) == SelectSeq(batch, LAMBDA t : BucketOf(t) = bucket)

Turnover(s) == SumSeq([i \in 1..Len(s) |-> s[i].price * s[i].volume])

\* C36: the vwap stored for a bucket of a flushed batch is
\* sum(price * volume) / sum(volume) over the batch's trades of the bucket.
C36_VwapVolumeWeighted ==
    StatsWritten =>
        \A b \in Buckets(last.batch) :
            db.market_stats[b].vwap[1] * VolumeOf(InBucket(last.batch, b))
                = db.market_stats[b].vwap[2] * Turnover(InBucket(last.batch, b))

\* The buckets of the records of a batch, and the records of one bucket.
Touched(batch) ==
    {BucketOf(batch[i]) : i \in {j \in 1..Len(batch) : "symbol" \in DOMAIN batch[j]}}

Falling(batch, bucket) ==
    SelectSeq(batch, LAMBDA t : "symbol" \in DOMAIN t /\ BucketOf(t) = bucket)

PricesIn(s) == {s[i].price : i \in {j \in 1..Len(s) : "price" \in DOMAIN s[j]}}

\* The counts, volumes, high and low of a row are those of the trades s.
HoldsAlone(row, s) ==
    /\ row.total_trades = Len(s)
    /\ row.total_volume = VolumeOf(s)
    /\ row.buy_trades = Len(SelectSeq(s, LAMBDA t : t.side = "BUY"))
    /\ row.sell_trades = Len(SelectSeq(s, LAMBDA t : t.side # "BUY"))
    /\ row.buy_volume = VolumeOf(SelectSeq(s, LAMBDA t : t.side = "BUY"))
    /\ row.sell_volume = VolumeOf(SelectSeq(s, LAMBDA t : t.side # "BUY"))
    /\ PricesIn(s) # {}
    /\ row.high_price = Highest(PricesIn(s))
    /\ row.low_price = Lowest(PricesIn(s))

\* C37: after update_market_stats has run for a flushed batch, every bucket
\* the batch touches holds the counts, volumes, high and low of the batch's
\* trades alone, and every other bucket is as it was.
C37_OverwritesPerBatch ==
    [][(last'.flush \in {"ok", "failed"} /\ last'.batch # <<>>) =>
          /\ DOMAIN db'.market_stats = DOMAIN db.market_stats \cup Touched(last'.batch)
          /\ \A b \in Touched(last'.batch) :
               HoldsAlone(db'.market_stats[b], Falling(last'.batch, b))
          /\ \A b \in DOMAIN db.market_stats \ Touched(last'.batch) :
               db'.market_stats[b] = db.market_stats[b]]_vars

(***************************************************************************)
(* The counters of stats, checked under Spec.  hist.handed counts the      *)
(* records handed to the _process_trades calls that returned.              *)
(***************************************************************************)
\* C38: trades_saved + len(trade_buffer) <= trades_processed, with equality
\* as long as no flush has failed, and trades_processed +
\* trades_duplicates_prevented is the number of records handed to
\* _process_trades in the calls that completed.
C38_CountersAddUp ==
    /\ engine.stats.trades_saved + Len(engine.trade_buffer) <= engine.stats.trades_processed
    /\ engine.stats.validation_errors = 0 =>
         engine.stats.trades_saved + Len(engine.trade_buffer) = engine.stats.trades_processed
    /\ engine.stats.trades_processed + engine.stats.trades_duplicates_prevented = hist.handed

(***************************************************************************)
(* stop() against the loop of start(), checked under Spec.                 *)
(***************************************************************************)
\* C39: once stop() has closed the database, the loop of this engine puts no
\* trade into trade_buffer or saved_trade_hashes and no pass of it runs into
\* the closed connection.
C39_NothingAcceptedAfterStop ==
    [][(db.conn = "closed" /\ lifetime' = lifetime) =>
          /\ engine'.trade_buffer = engine.trade_buffer
          /\ engine'.saved_trade_hashes = engine.saved_trade_hashes
          /\ last'.op = "cycle" => ~last'.raised]_vars

(***************************************************************************)
(* SpecBacklog: get_data polled on a sheet that already holds a backlog of *)
(* trades, one per minute, in rising or falling row order, while new       *)
(* trades arrive in the first row and the oldest one leaves.  hist holds   *)
(* the two trade ranges, the polls made, the ranges as the first poll saw  *)
(* them, the hashes that poll returned, how often each hash was returned,  *)
(* and the hashes that later polls saw.                                    *)
(***************************************************************************)
MaxBacklog == 32

MaxPolls == 3

MaxArrivals == 1

MinuteRow(m) == [data |-> <<Stamp(9, m, 0, <<>>)>>, agressao |-> "Comprador",
                 valor |-> 10, quantidade |-> 1]

Rising(n) == [i \in 1..n |-> MinuteRow(i)]

Descending(n) == [i \in 1..n |-> MinuteRow(n - i + 1)]

BacklogSizes == {1, FirstRunLimit - 1, FirstRunLimit, FirstRunLimit + 1, MaxBacklog}

InitBacklog ==
    /\ engine = NewEngine(FALSE)
    /\ db = NewDatabase
    /\ pc = "backlog"
    /\ lifetime = 1
    /\ cycles = 0
    /\ \E n \in BacklogSizes, m \in {0, FirstRunLimit + 1} :
         \E wdo \in {Rising(n), Descending(n)} :
            hist = [wdo |-> wdo, dol |-> Rising(m), calls |-> 0, arrived |-> 0,
                    seen_first |-> <<>>, first |-> {}, emitted |-> <<>>, later |-> {}]
    /\ last = Quiet("init")
    /\ provider = NewProvider
    /\ Elsewhere

HashesIn(trades) == {create_trade_hash(trades[i]) : i \in 1..Len(trades)}

Returned(pr) == IF pr.returned = <<>> THEN {} ELSE HashesIn(pr.returned[1])

\* One more return counted for each hash of the set.
Counted(emitted, hashes) ==
    [h \in DOMAIN emitted \cup hashes |->
        (IF h \in DOMAIN emitted THEN emitted[h] ELSE 0) + (IF h \in hashes THEN 1 ELSE 0)]

Visible(wdo, dol) ==
    HashesIn(read_trades("wdofut_trades", wdo)) \cup HashesIn(read_trades("dolfut_trades", dol))

polled(h, pr) ==
    [h EXCEPT !.calls = @ + 1,
              !.seen_first = IF h.calls = 0 THEN <<h.wdo, h.dol>> ELSE @,
              !.first = IF h.calls = 0 THEN Returned(pr) ELSE @,
              !.emitted = Counted(@, Returned(pr)),
              !.later = IF h.calls = 0 THEN @ ELSE @ \cup Visible(h.wdo, h.dol)]

\* One get_data call on the sheet as it is.
Poll ==
    /\ pc = "backlog"
    /\ hist.calls < MaxPolls
    /\ provider' = get_data(provider, hist.wdo, hist.dol,
                            SeenAfter(provider, hist.wdo, hist.dol))
    /\ hist' = polled(hist, get_data(provider, hist.wdo, hist.dol,
                                     SeenAfter(provider, hist.wdo, hist.dol)))
    /\ last' = Quiet("get_data")
    /\ UNCHANGED <<system, detection, manager, clock, engine, db, pc, lifetime, cycles>>

\* A new trade is written to the first row of the WDOFUT range.
Arrive ==
    /\ pc = "backlog"
    /\ hist.arrived < MaxArrivals
    /\ hist' = [hist EXCEPT !.wdo = <<MinuteRow(MaxBacklog + 1 + hist.arrived)>> \o @,
                            !.arrived = @ + 1]
    /\ last' = Quiet("arrive")
    /\ UNCHANGED <<system, detection, manager, clock, engine, db, pc, lifetime, cycles,
                   provider>>

\* The last row of the WDOFUT range leaves the sheet.
Leave ==
    /\ pc = "backlog"
    /\ Len(hist.wdo) > 1
    /\ cycles < 1
    /\ hist' = [hist EXCEPT !.wdo = SubSeq(@, 1, Len(@) - 1)]
    /\ cycles' = cycles + 1
    /\ last' = Quiet("leave")
    /\ UNCHANGED <<system, detection, manager, clock, engine, db, pc, lifetime, provider>>

NextBacklog == Poll \/ Arrive \/ Leave

SpecBacklog == InitBacklog /\ [][NextBacklog]_vars

\* The hashes of the n trades of a range with the earliest times.
Oldest(trades, n) ==
    {create_trade_hash(trades[i]) :
        i \in {j \in 1..Len(trades) :
                 Cardinality({k \in 1..Len(trades) :
                                 parse_time_for_sorting(trades[k].timestamp)
                                   < parse_time_for_sorting(trades[j].timestamp)}) < n}}

\* C40: the first call returns the 30 oldest trades of each symbol and
\* nothing else; every trade a later call finds in the sheet has been
\* returned, and no trade is returned by more than one call.
C40_NoTradeSkipped ==
    /\ hist.calls >= 1 =>
         hist.first = Oldest(read_trades("wdofut_trades", hist.seen_first[1]), 30)
                        \cup Oldest(read_trades("dolfut_trades", hist.seen_first[2]), 30)
    /\ \A h \in hist.later : h \in DOMAIN hist.emitted
    /\ \A h \in DOMAIN hist.emitted : hist.emitted[h] = 1

\* A backlog of more than 30 trades of each symbol: the first call returned
\* 30 of each, a later call the rest, and a third call has run since.
C40_Witness ==
    /\ hist.calls = MaxPolls
    /\ Cardinality(hist.first) = 60
    /\ Len(hist.seen_first[1]) > 30
    /\ \E h \in hist.later : h \notin hist.first /\ h \in Visible(hist.seen_first[1], <<>>)
    /\ Visible(hist.seen_first[1], hist.seen_first[2]) \subseteq DOMAIN hist.emitted

====
